---- MODULE Spec2Model ----
(***************************************************************************)
(* Model of the life_manager modelling engine: the pharmacokinetic         *)
(* bio-score engine (app/core/bio_engine.py), the hydration engine         *)
(* (app/core/water_engine.py) and the watch endpoints that combine the     *)
(* hydration assessment with the velocity check (app/api/routes.py).       *)
(*                                                                         *)
(* Units.  Timestamps are minutes since midnight of day 0.  Relative       *)
(* levels are in 1/1000 (1000 = the peak of one default dose).             *)
(* Concentrations are in 1/1000 ng/ml.  Score points are in 1/600 point,   *)
(* which makes every circadian slope an integer per minute; the fields of  *)
(* a result that the code rounds to one decimal are in 1/10 point.         *)
(* Water amounts are in ml, hours of the day in minutes since midnight.    *)
(***************************************************************************)
EXTENDS Integers, Sequences, FiniteSets, TLC

VARIABLES
    intakes,      \* intake_events rows, ORDER BY timestamp
    isFasting,    \* USER_IS_FASTING, read from the environment at start-up
    bioCall,      \* the last engine call on the current intake list and its result
    waterEvents,  \* today's water_events rows, ORDER BY timestamp
    clock,        \* datetime.now(), in minutes since midnight of day 0
    waterGoal,    \* today's row of water_goals (None before the first upsert)
    waterCall,    \* the last hydration call or request and its response
    peakCache,    \* _CASCADE_PEAK_CACHE: rounded rate triple -> peak
    handlers      \* the position of each thread inside _cascade_peak

vars ==
    <<intakes, isFasting, bioCall, waterEvents, clock, waterGoal, waterCall, peakCache, handlers>>

cascadeVars == <<peakCache, handlers>>

waterVars == <<waterEvents, clock, waterGoal, waterCall>>

(***************************************************************************)
(* Python's None for an Optional argument or a NULL column.                *)
(***************************************************************************)
None == -1

\* ---------------------------------------------------------------- config.py

USER_WEIGHT_KG == 96
REFERENCE_WEIGHT_KG == 70
ELVANSE_DEFAULT_DOSE_MG == 40
MEDIKINET_DEFAULT_DOSE_MG == 10
MEDIKINET_RETARD_DEFAULT_DOSE_MG == 30
MATE_CAFFEINE_MG == 76
CO_DAFALGAN_DEFAULT_DOSE_MG == 500
PARACETAMOL_MAX_DAILY_FASTING_MG == 2000

\* CMAX_REF, in 1/1000 ng/ml.
CMAX_REF(name) ==
    CASE name = "elvanse" -> 36000
      [] name = "medikinet_ir" -> 6000
      [] name = "medikinet_retard" -> 12000
      [] name = "caffeine" -> 1500000
      [] name = "codein" -> 100000
      [] name = "paracetamol" -> 10000000

Substances == {"elvanse", "medikinet", "medikinet_retard", "mate", "co_dafalgan"}

\* ------------------------------------------------------------ arithmetic

Min(a, b) == IF a <= b THEN a ELSE b
Max(a, b) == IF a >= b THEN a ELSE b

\* Python's int() of the quotient n/d (d > 0): truncation toward zero.
TruncDiv(n, d) == IF n >= 0 THEN n \div d ELSE -((-n) \div d)

\* ----------------------------------------------------- allometric scaling

allometric_cmax(cmax_ref, weight_user) ==
    IF weight_user <= 0
    THEN cmax_ref
    ELSE (cmax_ref * REFERENCE_WEIGHT_KG) \div weight_user

\* ------------------------------------------------------------- PK curves

(***************************************************************************)
(* The normalised curves, evaluated by the code's own closed forms with    *)
(* the rate constants of config.py at t = 0h, 1h, ..., 40h and rounded to  *)
(* 1/1000.  Entry h+1 is the value h hours after the dose.                 *)
(***************************************************************************)
CascadeTable ==
    <<0, 432, 818, 974, 999, 964, 906, 840, 774, 711, 652, 598, 547, 501,
      459, 421, 385, 353, 323, 296, 271, 248, 227, 208, 190, 174, 160, 146,
      134, 123, 112, 103, 94, 86, 79, 72, 66, 61, 56, 51, 47>>

BatemanTable(curve) ==
    CASE curve = "medikinet_ir" ->
           <<0, 980, 917, 724, 553, 419, 317, 239, 181, 137, 103, 78, 59, 45,
             34, 25, 19, 15, 11, 8, 6, 5, 4, 3, 2, 2, 1, 1, 1, 1, 0, 0, 0, 0,
             0, 0, 0, 0, 0, 0, 0>>
      [] curve = "medikinet_retard" ->
           <<0, 923, 976, 821, 646, 496, 377, 286, 216, 163, 124, 93, 71, 53,
             40, 30, 23, 17, 13, 10, 8, 6, 4, 3, 2, 2, 1, 1, 1, 1, 0, 0, 0, 0,
             0, 0, 0, 0, 0, 0, 0>>
      [] curve = "caffeine" ->
           <<0, 993, 928, 797, 680, 579, 494, 421, 358, 305, 260, 222, 189,
             161, 137, 117, 100, 85, 72, 62, 53, 45, 38, 33, 28, 24, 20, 17,
             15, 12, 11, 9, 8, 7, 6, 5, 4, 3, 3, 3, 2>>
      [] curve = "codein" ->
           <<0, 968, 946, 784, 628, 500, 398, 316, 251, 200, 159, 126, 100,
             80, 63, 50, 40, 32, 25, 20, 16, 13, 10, 8, 6, 5, 4, 3, 3, 2, 2,
             1, 1, 1, 1, 1, 0, 0, 0, 0, 0>>

\* The sample of a curve t minutes after the dose (the last sample beyond it).
SampleAt(table, t) == table[Min(t \div 60, Len(table) - 1) + 1]

\* t in minutes; the guard t <= 0 is the code's own.
_bateman_normalized(t, curve) ==
    IF t <= 0 THEN 0 ELSE Max(0, SampleAt(BatemanTable(curve), t))

_cascade_normalized(t) ==
    IF t <= 0 THEN 0 ELSE Max(0, SampleAt(CascadeTable, t))

\* ------------------------------------- concentration calculators (ng/ml)

elvanse_concentration(t, dose_mg, weight_kg) ==
    LET cmax == allometric_cmax(CMAX_REF("elvanse"), weight_kg)
        level == _cascade_normalized(t)
    IN  TruncDiv(((cmax * level) \div 1000) * dose_mg, ELVANSE_DEFAULT_DOSE_MG)

medikinet_ir_concentration(t, dose_mg, weight_kg) ==
    LET cmax == allometric_cmax(CMAX_REF("medikinet_ir"), weight_kg)
        level == _bateman_normalized(t, "medikinet_ir")
    IN  TruncDiv(((cmax * level) \div 1000) * dose_mg, MEDIKINET_DEFAULT_DOSE_MG)

medikinet_retard_concentration(t, dose_mg, weight_kg) ==
    LET cmax == allometric_cmax(CMAX_REF("medikinet_retard"), weight_kg)
        level == _bateman_normalized(t, "medikinet_retard")
    IN  TruncDiv(((cmax * level) \div 1000) * dose_mg,
                 MEDIKINET_RETARD_DEFAULT_DOSE_MG)

caffeine_concentration(t, dose_mg, weight_kg) ==
    LET cmax == allometric_cmax(CMAX_REF("caffeine"), weight_kg)
        level == _bateman_normalized(t, "caffeine")
    IN  TruncDiv(((cmax * level) \div 1000) * dose_mg, MATE_CAFFEINE_MG)

\* codein_dose / 30 = dose_paracetamol_mg * (30/500) / 30 = dose_paracetamol_mg / 500
codein_concentration(t, dose_paracetamol_mg, weight_kg) ==
    LET cmax == allometric_cmax(CMAX_REF("codein"), weight_kg)
        level == _bateman_normalized(t, "codein")
    IN  TruncDiv(((cmax * level) \div 1000) * dose_paracetamol_mg, 500)

\* -------------------------------------------- relative level calculators

elvanse_level(t, dose_mg) ==
    TruncDiv(_cascade_normalized(t) * dose_mg, ELVANSE_DEFAULT_DOSE_MG)

medikinet_ir_level(t, dose_mg) ==
    TruncDiv(_bateman_normalized(t, "medikinet_ir") * dose_mg,
             MEDIKINET_DEFAULT_DOSE_MG)

medikinet_retard_level(t, dose_mg) ==
    TruncDiv(_bateman_normalized(t, "medikinet_retard") * dose_mg,
             MEDIKINET_RETARD_DEFAULT_DOSE_MG)

caffeine_level(t, dose_mg) ==
    TruncDiv(_bateman_normalized(t, "caffeine") * dose_mg, MATE_CAFFEINE_MG)

\* The conc_fn / level_fn argument the callers pass for each substance.
conc_fn(substance, t, dose) ==
    CASE substance = "elvanse" -> elvanse_concentration(t, dose, USER_WEIGHT_KG)
      [] substance = "medikinet" ->
           medikinet_ir_concentration(t, dose, USER_WEIGHT_KG)
      [] substance = "medikinet_retard" ->
           medikinet_retard_concentration(t, dose, USER_WEIGHT_KG)
      [] substance = "mate" -> caffeine_concentration(t, dose, USER_WEIGHT_KG)
      [] substance = "co_dafalgan" ->
           codein_concentration(t, dose, USER_WEIGHT_KG)

level_fn(substance, t, dose) ==
    CASE substance = "elvanse" -> elvanse_level(t, dose)
      [] substance = "medikinet" -> medikinet_ir_level(t, dose)
      [] substance = "medikinet_retard" -> medikinet_retard_level(t, dose)
      [] substance = "mate" -> caffeine_level(t, dose)

default_dose(substance) ==
    CASE substance = "elvanse" -> ELVANSE_DEFAULT_DOSE_MG
      [] substance = "medikinet" -> MEDIKINET_DEFAULT_DOSE_MG
      [] substance = "medikinet_retard" -> MEDIKINET_RETARD_DEFAULT_DOSE_MG
      [] substance = "mate" -> MATE_CAFFEINE_MG
      [] substance = "co_dafalgan" -> CO_DAFALGAN_DEFAULT_DOSE_MG

\* intake.get("dose_mg") or default_dose
DoseOf(intake, default) ==
    IF intake.dose_mg = None \/ intake.dose_mg = 0 THEN default ELSE intake.dose_mg

\* Python's round(n/d, k) on the exact quotient: to the nearest, ties to even.
RoundDiv(n, d) ==
    LET q == n \div d
        r == n % d
    IN  IF 2 * r < d THEN q
        ELSE IF 2 * r > d THEN q + 1
        ELSE IF q % 2 = 0 THEN q ELSE q + 1

\* ------------------------------------------------- cascade peak memoization

\* Rate constants are in 1e-7 per hour, raw cascade values and peaks in 1e-9.
ELVANSE_KA_ABS == 20000000
ELVANSE_KA == 7800000
ELVANSE_KE == 880000

RateTriple(k_abs, k_hyd, k_e) == [k_abs |-> k_abs, k_hyd |-> k_hyd, k_e |-> k_e]

\* The triple every caller inside the engine passes (elvanse_level, elvanse_concentration).
ElvanseRates == RateTriple(ELVANSE_KA_ABS, ELVANSE_KA, ELVANSE_KE)

\* The triples of direct calls: the configured one, two that differ from it
\* in the seventh decimal of k_e, and one with another k_e.
RateTriples ==
    {ElvanseRates,
     RateTriple(ELVANSE_KA_ABS, ELVANSE_KA, 880004),
     RateTriple(ELVANSE_KA_ABS, ELVANSE_KA, 879996),
     RateTriple(ELVANSE_KA_ABS, ELVANSE_KA, 1000000)}

\* round(k, 6)
Round6(k) == RoundDiv(k, 10) * 10

\* key = (round(k_abs, 6), round(k_hyd, 6), round(k_e, 6))
CacheKey(rates) == RateTriple(Round6(rates.k_abs), Round6(rates.k_hyd), Round6(rates.k_e))

(***************************************************************************)
(* _cascade_raw(i * 0.01, k_abs, k_hyd, k_e) by the code's closed form, at *)
(* the sweep indices i = 100, 200, 300, 366, 379, 400, 500, 1000, 2000 and *)
(* 3000: the sweep of 3000 samples thinned to ten that include the largest *)
(* sample of each triple.                                                  *)
(***************************************************************************)
CascadeRawSamples(rates) ==
    CASE rates.k_e = 880000 ->
           <<323182200, 612725078, 729137837, 748452894, 748890517, 747829395,
             721975372, 488290869, 202848436, 84138193>>
      [] rates.k_e = 880004 ->
           <<323182148, 612724844, 729137361, 748452254, 748889845, 747828674,
             721974429, 488289298, 202846973, 84137250>>
      [] rates.k_e = 879996 ->
           <<323182253, 612725313, 729138313, 748453533, 748891188, 747830116,
             721976314, 488292441, 202849899, 84139137>>
      [] rates.k_e = 1000000 ->
           <<321610177, 605741692, 715017750, 729550942, 729072213, 726556313,
             694310693, 443418325, 163407611, 60114417>>

SweepUpdateLast(peak, val) == val

\* if val > peak: peak = val
SweepUpdate(peak, val) == IF val > peak THEN val ELSE peak

\* The loop of _cascade_peak from sample i on, with the running peak.
RECURSIVE SweepFrom(_, _, _)
SweepFrom(samples, i, peak) ==
    IF i > Len(samples) THEN peak
    ELSE SweepFrom(samples, i + 1, SweepUpdate(peak, samples[i]))

SweepPeak(rates) == SweepFrom(CascadeRawSamples(rates), 1, 0)

\* _CASCADE_PEAK_CACHE[key] = peak
CacheInsert(cache, key, peak) ==
    [k \in DOMAIN cache \cup {key} |-> IF k = key THEN peak ELSE cache[k]]

\* ---------------------------------------------------------- circadian base

\* m is the minute of the day (hour = m / 60); the result is in 1/600 point.
\* The branch of circadian_base_score that serves minute m: 1 for hour < 6,
\* 2 for hour < 7, ... 11 for the final else.
CircadianBranch(m) ==
    IF m < 360 THEN 1
    ELSE IF m < 420 THEN 2
    ELSE IF m < 540 THEN 3
    ELSE IF m < 720 THEN 4
    ELSE IF m < 780 THEN 5
    ELSE IF m < 870 THEN 6
    ELSE IF m < 900 THEN 7
    ELSE IF m < 1020 THEN 8
    ELSE IF m < 1200 THEN 9
    ELSE IF m < 1320 THEN 10
    ELSE 11

CircadianSegmentSlope12(i, m) ==
    CASE i = 1 -> 9000
      [] i = 2 -> 9000 + (m - 360) * 200
      [] i = 3 -> 21000 + (m - 420) * 120
      [] i = 4 -> 36000
      [] i = 5 -> 36000 - (m - 720) * 100
      [] i = 6 -> 30000 - (m - 780) * 100
      [] i = 7 -> 21000 + (m - 870) * 300
      [] i = 8 -> 30000
      [] i = 9 -> 30000 - (m - 1020) * 80
      [] i = 10 -> 15600 - (m - 1200) * 50
      [] OTHER -> Max(9000, 9600 - (m - 1320) * 5)

\* The expression branch i returns at minute m, in 1/600 point.
CircadianSegment(i, m) ==
    CASE i = 1 -> 9000
      [] i = 2 -> 9000 + (m - 360) * 200
      [] i = 3 -> 21000 + (m - 420) * 125
      [] i = 4 -> 36000
      [] i = 5 -> 36000 - (m - 720) * 100
      [] i = 6 -> 30000 - (m - 780) * 100
      [] i = 7 -> 21000 + (m - 870) * 300
      [] i = 8 -> 30000
      [] i = 9 -> 30000 - (m - 1020) * 80
      [] i = 10 -> 15600 - (m - 1200) * 50
      [] OTHER -> Max(9000, 9600 - (m - 1320) * 5)

circadian_base_score(m) == CircadianSegment(CircadianBranch(m), m)

\* target_time.hour + target_time.minute / 60.0, as a minute of the day
HourOfWholeHours(t) == ((t % 1440) \div 60) * 60

HourOf(t) == t % 1440

\* ------------------------------------ substance load (Heaviside superposition)

\* LoadTerm on the absolute time difference, without the Heaviside cut.
LoadTermAbs(intake, target_time, substance, default) ==
    LET diff == target_time - intake.timestamp
        hours_since == IF diff < 0 THEN -diff ELSE diff
        conc == conc_fn(substance, hours_since, DoseOf(intake, default))
    IN  IF intake.substance # substance THEN 0
        ELSE IF conc > 10 THEN conc
        ELSE 0

\* One pass of the loop of compute_substance_load_ngml.
LoadTerm(intake, target_time, substance, default) ==
    LET hours_since == target_time - intake.timestamp
        conc == conc_fn(substance, hours_since, DoseOf(intake, default))
    IN  IF intake.substance # substance THEN 0
        ELSE IF hours_since < 0 THEN 0
        ELSE IF conc > 10 THEN conc
        ELSE 0

RECURSIVE SumLoad(_, _, _, _, _)
SumLoad(list, i, target_time, substance, default) ==
    IF i > Len(list) THEN 0
    ELSE LoadTerm(list[i], target_time, substance, default)
         + SumLoad(list, i + 1, target_time, substance, default)

compute_substance_load_ngml(list, target_time, substance, default) ==
    SumLoad(list, 1, target_time, substance, default)

\* One pass of the loop of compute_substance_level.
LevelTerm(intake, target_time, substance, default) ==
    LET hours_since == target_time - intake.timestamp
        effect == level_fn(substance, hours_since, DoseOf(intake, default))
    IN  IF intake.substance # substance THEN 0
        ELSE IF hours_since < 0 THEN 0
        ELSE IF effect > 5 THEN effect
        ELSE 0

RECURSIVE SumLevel(_, _, _, _, _)
SumLevel(list, i, target_time, substance, default) ==
    IF i > Len(list) THEN 0
    ELSE LevelTerm(list[i], target_time, substance, default)
         + SumLevel(list, i + 1, target_time, substance, default)

compute_substance_level(list, target_time, substance, default) ==
    SumLevel(list, 1, target_time, substance, default)

\* ------------------------------------------------------- DDI warning system

Warning(severity, type) == [severity |-> severity, type |-> type]

\* The thresholds of check_ddi_warnings: allometric_cmax(...) * 0.2.
d_amph_thresh == (allometric_cmax(CMAX_REF("elvanse"), USER_WEIGHT_KG) * 2) \div 10
mph_thresh == (allometric_cmax(CMAX_REF("medikinet_ir"), USER_WEIGHT_KG) * 2) \div 10

stimulant_active(elv_conc, med_ir_conc, med_ret_conc) ==
    \/ elv_conc > d_amph_thresh
    \/ med_ir_conc > mph_thresh
    \/ med_ret_conc > mph_thresh

\* Rule 1
Cyp2d6Rule(cod_conc, elv_conc, med_ir_conc, med_ret_conc) ==
    IF cod_conc > 1000 /\ stimulant_active(elv_conc, med_ir_conc, med_ret_conc)
    THEN <<Warning("critical", "cyp2d6_blockade")>>
    ELSE <<>>

\* Rule 2; total_stim_norm is in 1/10000.
total_stim_norm(elv_conc, med_ir_conc, med_ret_conc, caff_conc) ==
    (elv_conc * 10000) \div Max(d_amph_thresh * 5, 1000)
    + ((med_ir_conc + med_ret_conc) * 10000) \div Max(mph_thresh * 5, 1000)
    + caff_conc \div 150

SerotoninRule(cod_conc, elv_conc, med_ir_conc, med_ret_conc, caff_conc) ==
    IF /\ cod_conc > 1000
       /\ total_stim_norm(elv_conc, med_ir_conc, med_ret_conc, caff_conc) > 3000
    THEN <<Warning("critical", "serotonin_syndrome")>>
    ELSE <<>>

\* Rule 3: one pass of the loop that sums para_total.
ParaTerm(intake, target_time) ==
    IF intake.substance # "co_dafalgan" THEN 0
    ELSE IF target_time - 1440 <= intake.timestamp /\ intake.timestamp <= target_time
         THEN DoseOf(intake, CO_DAFALGAN_DEFAULT_DOSE_MG)
         ELSE 0

RECURSIVE SumPara(_, _, _)
SumPara(list, i, target_time) ==
    IF i > Len(list) THEN 0
    ELSE ParaTerm(list[i], target_time) + SumPara(list, i + 1, target_time)

para_total(list, target_time) == SumPara(list, 1, target_time)

ParacetamolRule(list, target_time, fasting) ==
    IF ~fasting THEN <<>>
    ELSE IF para_total(list, target_time) > PARACETAMOL_MAX_DAILY_FASTING_MG
         THEN <<Warning("critical", "paracetamol_toxicity")>>
    ELSE IF para_total(list, target_time) > 1000
         THEN <<Warning("warning", "paracetamol_caution")>>
    ELSE <<>>

\* Rule 4
cmax_stim_sum ==
    allometric_cmax(CMAX_REF("elvanse"), USER_WEIGHT_KG)
    + allometric_cmax(CMAX_REF("medikinet_ir"), USER_WEIGHT_KG)

CnsRule(elv_conc, med_ir_conc, med_ret_conc, caff_conc) ==
    IF /\ (elv_conc + med_ir_conc + med_ret_conc) * 10 > cmax_stim_sum * 8
       /\ caff_conc > 800000
    THEN <<Warning("warning", "cns_overload")>>
    ELSE <<>>

\* check_ddi_warnings that returns at the first critical metabolic warning.
check_ddi_warnings_first_only(list, target_time, fasting) ==
    LET elv_conc == compute_substance_load_ngml(list, target_time, "elvanse",
                                                ELVANSE_DEFAULT_DOSE_MG)
        med_ir_conc == compute_substance_load_ngml(list, target_time, "medikinet",
                                                   MEDIKINET_DEFAULT_DOSE_MG)
        med_ret_conc == compute_substance_load_ngml(list, target_time,
                            "medikinet_retard", MEDIKINET_RETARD_DEFAULT_DOSE_MG)
        caff_conc == compute_substance_load_ngml(list, target_time, "mate",
                                                 MATE_CAFFEINE_MG)
        cod_conc == compute_substance_load_ngml(list, target_time, "co_dafalgan",
                                                CO_DAFALGAN_DEFAULT_DOSE_MG)
        first == Cyp2d6Rule(cod_conc, elv_conc, med_ir_conc, med_ret_conc)
    IN  IF first # <<>> THEN first
        ELSE SerotoninRule(cod_conc, elv_conc, med_ir_conc, med_ret_conc, caff_conc)
             \o ParacetamolRule(list, target_time, fasting)
             \o CnsRule(elv_conc, med_ir_conc, med_ret_conc, caff_conc)

check_ddi_warnings(list, target_time, fasting) ==
    LET elv_conc == compute_substance_load_ngml(list, target_time, "elvanse",
                                                ELVANSE_DEFAULT_DOSE_MG)
        med_ir_conc == compute_substance_load_ngml(list, target_time, "medikinet",
                                                   MEDIKINET_DEFAULT_DOSE_MG)
        med_ret_conc == compute_substance_load_ngml(list, target_time,
                            "medikinet_retard", MEDIKINET_RETARD_DEFAULT_DOSE_MG)
        caff_conc == compute_substance_load_ngml(list, target_time, "mate",
                                                 MATE_CAFFEINE_MG)
        cod_conc == compute_substance_load_ngml(list, target_time, "co_dafalgan",
                                                CO_DAFALGAN_DEFAULT_DOSE_MG)
    IN  Cyp2d6Rule(cod_conc, elv_conc, med_ir_conc, med_ret_conc)
        \o SerotoninRule(cod_conc, elv_conc, med_ir_conc, med_ret_conc, caff_conc)
        \o ParacetamolRule(list, target_time, fasting)
        \o CnsRule(elv_conc, med_ir_conc, med_ret_conc, caff_conc)

\* ------------------------------------------------------------ HRV penalty

\* stim_level in 1/1000; the result in 1/600 point.
hrv_penalty_hr_alone(hrv_ms, resting_hr, stim_level) ==
    LET penalty == IF hrv_ms = None THEN 0
                   ELSE IF hrv_ms < 20 /\ stim_level > 500 THEN -9000
                   ELSE IF hrv_ms < 30 /\ stim_level > 500 THEN -6000
                   ELSE IF hrv_ms < 40 /\ stim_level > 300 THEN -3000
                   ELSE IF hrv_ms < 50 /\ stim_level > 500 THEN -1800
                   ELSE 0
        hr_part == IF resting_hr = None THEN 0
                   ELSE IF resting_hr > 100 THEN -4800
                   ELSE IF resting_hr > 90 /\ stim_level > 300 THEN -3000
                   ELSE 0
    IN  Max(-9000, penalty + hr_part)

hrv_penalty(hrv_ms, resting_hr, stim_level) ==
    LET penalty == IF hrv_ms < 20 /\ stim_level > 500 THEN -9000
                   ELSE IF hrv_ms < 30 /\ stim_level > 500 THEN -6000
                   ELSE IF hrv_ms < 40 /\ stim_level > 300 THEN -3000
                   ELSE IF hrv_ms < 50 /\ stim_level > 500 THEN -1800
                   ELSE 0
        hr_part == IF resting_hr = None THEN 0
                   ELSE IF resting_hr > 100 THEN -4800
                   ELSE IF resting_hr > 90 /\ stim_level > 300 THEN -3000
                   ELSE 0
    IN  IF hrv_ms = None THEN 0 ELSE Max(-9000, penalty + hr_part)

\* sleep_duration_min in minutes (hours = minutes / 60); the result in 1/600 point.
sleep_quality_modifier(sleep_duration_min, sleep_confidence) ==
    LET base == IF sleep_duration_min < 300 THEN -20
                ELSE IF sleep_duration_min < 360 THEN -10
                ELSE IF sleep_duration_min < 420 THEN -5
                ELSE IF sleep_duration_min < 480 THEN 0
                ELSE IF sleep_duration_min < 540 THEN 5
                ELSE 10
    IN  IF sleep_duration_min = None THEN 0
        ELSE IF sleep_confidence # None /\ sleep_confidence > 0
             THEN base * 6 * sleep_confidence
             ELSE base * 600

\* ------------------------------------------------------------------ phase

_determine_phase_hour_first(stim_level, caffeine_lv, hour) ==
    IF hour < 360 THEN "sleep"
    ELSE IF hour < 420 THEN "waking"
    ELSE IF 750 <= hour /\ hour <= 870 THEN "midday-dip"
    ELSE IF hour >= 1200 THEN "wind-down"
    ELSE IF stim_level >= 850 THEN "peak-focus"
    ELSE IF stim_level >= 500 THEN "active-focus"
    ELSE IF stim_level >= 200 THEN "declining"
    ELSE IF stim_level >= 50 THEN "low-residual"
    ELSE "baseline"

\* hour as a minute of the day; the caffeine level is passed and not read.
_determine_phase(stim_level, caffeine_lv, hour) ==
    IF hour < 360 THEN "sleep"
    ELSE IF hour < 420 THEN "waking"
    ELSE IF stim_level >= 850 THEN "peak-focus"
    ELSE IF stim_level >= 500 THEN "active-focus"
    ELSE IF stim_level >= 200 THEN "declining"
    ELSE IF stim_level >= 50 THEN "low-residual"
    ELSE IF 750 <= hour /\ hour <= 870 THEN "midday-dip"
    ELSE IF hour >= 1200 THEN "wind-down"
    ELSE "baseline"

\* ------------------------------------------------------ Bio-Score composite

\* ClampScore without the upper clamp.
ClampScoreNoCeiling(raw_score) == Max(0, raw_score)

\* max(0.0, min(100.0, raw_score)), in 1/600 point
ClampScore(raw_score) == Max(0, Min(60000, raw_score))

compute_bio_score(target_time, list, sleep_duration_min, sleep_confidence, hrv_ms, resting_hr, fasting) ==
    LET hour == HourOf(target_time)
        circadian == circadian_base_score(hour)
        elv_lv == compute_substance_level(list, target_time, "elvanse",
                                          ELVANSE_DEFAULT_DOSE_MG)
        elvanse_boost == Min(18000, elv_lv * 18)
        med_ir_lv == compute_substance_level(list, target_time, "medikinet",
                                             MEDIKINET_DEFAULT_DOSE_MG)
        med_ret_lv == compute_substance_level(list, target_time, "medikinet_retard",
                                              MEDIKINET_RETARD_DEFAULT_DOSE_MG)
        med_combined == med_ir_lv + med_ret_lv
        medikinet_boost == Min(15000, med_combined * 15)
        caff_lv == compute_substance_level(list, target_time, "mate", MATE_CAFFEINE_MG)
        caffeine_boost == Min(9000, caff_lv * 9)
        sleep_mod == sleep_quality_modifier(sleep_duration_min, sleep_confidence)
        stim_peak == Max(elv_lv, med_combined)
        hrv_pen == hrv_penalty(hrv_ms, resting_hr, stim_peak)
        raw_score == circadian + elvanse_boost + medikinet_boost + caffeine_boost
                     + sleep_mod + hrv_pen
        score == ClampScore(raw_score)
        elv_conc == compute_substance_load_ngml(list, target_time, "elvanse",
                                                ELVANSE_DEFAULT_DOSE_MG)
        med_ir_conc == compute_substance_load_ngml(list, target_time, "medikinet",
                                                   MEDIKINET_DEFAULT_DOSE_MG)
        med_ret_conc == compute_substance_load_ngml(list, target_time,
                            "medikinet_retard", MEDIKINET_RETARD_DEFAULT_DOSE_MG)
        caff_conc == compute_substance_load_ngml(list, target_time, "mate",
                                                 MATE_CAFFEINE_MG)
        cod_conc == compute_substance_load_ngml(list, target_time, "co_dafalgan",
                                                CO_DAFALGAN_DEFAULT_DOSE_MG)
    IN  [score |-> RoundDiv(score, 60),
         circadian |-> RoundDiv(circadian, 60),
         elvanse_boost |-> RoundDiv(elvanse_boost, 60),
         medikinet_boost |-> RoundDiv(medikinet_boost, 60),
         caffeine_boost |-> RoundDiv(caffeine_boost, 60),
         sleep_modifier |-> RoundDiv(sleep_mod, 60),
         hrv_penalty |-> RoundDiv(hrv_pen, 60),
         elvanse_level |-> elv_lv,
         medikinet_level |-> med_combined,
         caffeine_level |-> caff_lv,
         codein_level |->
             (cod_conc * 1000)
             \div Max(allometric_cmax(CMAX_REF("codein"), USER_WEIGHT_KG), 1000),
         elvanse_ng_ml |-> RoundDiv(elv_conc, 100),
         medikinet_ng_ml |-> RoundDiv(med_ir_conc + med_ret_conc, 100),
         caffeine_ng_ml |-> RoundDiv(caff_conc, 1000),
         codein_ng_ml |-> RoundDiv(cod_conc, 100),
         cns_load |-> elv_lv + med_combined + caff_lv,
         phase |-> _determine_phase(stim_peak, caff_lv, hour),
         timestamp |-> target_time,
         warnings |-> check_ddi_warnings(list, target_time, fasting)]

\* ------------------------------------------------------------- day curve

\* The loop of generate_day_curve from offset i on: for i in range(0, 24 * 60,
\* interval_minutes), one point per offset, appended in order.
RECURSIVE DayCurveFrom(_, _, _, _, _, _)
DayCurveFrom(i, start, list, health, interval_minutes, fasting) ==
    IF i >= 24 * 60 THEN <<>>
    ELSE <<compute_bio_score(start + i, list, health.sleep, health.conf,
                             health.hrv, health.rhr, fasting)>>
         \o DayCurveFrom(i + interval_minutes, start, list, health, interval_minutes, fasting)

generate_day_curve_from_date(date, list, health, interval_minutes, fasting) ==
    DayCurveFrom(0, date, list, health, interval_minutes, fasting)

\* start = date.replace(hour=0, minute=0, second=0, microsecond=0)
generate_day_curve(date, list, health, interval_minutes, fasting) ==
    LET start == date - HourOf(date)
    IN  DayCurveFrom(0, start, list, health, interval_minutes, fasting)

\* --------------------------------------------------------- water_engine.py

(***************************************************************************)
(* The constants water_engine.py imports from app.config.  Amounts are in  *)
(* ml, WATER_BASE_ML_PER_KG in 1/10 ml per kg (33.3 ml/kg).  Hours of the  *)
(* day are in minutes since midnight.                                      *)
(***************************************************************************)
WATER_BASE_ML_PER_KG == 333
WATER_DRUG_MODIFIER_ML == 110
WATER_FASTING_MODIFIER_ML == 500
WATER_ACTIVITY_ML_PER_1K_STEPS == 60
WATER_ACTIVITY_BASELINE_STEPS == 4000
WATER_MAX_HOURLY_ML == 800

\* the defaults wake_hour = 7.0 and sleep_hour = 23.0 of the engine's functions
DEFAULT_WAKE_HOUR == 420
DEFAULT_SLEEP_HOUR == 1380

(***************************************************************************)
(* Floating point.  The code computes the goal in doubles and truncates    *)
(* with int(), so a double that lies just below a whole number matters.    *)
(* A double near the whole number n is the pair (n, dev): the value        *)
(* n + dev * unit, where the ulp of the doubles in [1, 2) is ulp1 units.   *)
(* Rounding to the nearest double (ties to the even mantissa, which n      *)
(* itself has) rounds dev to a multiple of the ulp of the value's binade.  *)
(***************************************************************************)
RECURSIVE Pow2(_)
Pow2(k) == IF k = 0 THEN 1 ELSE 2 * Pow2(k - 1)

RECURSIVE Log2Floor(_)
Log2Floor(n) == IF n < 2 THEN 0 ELSE 1 + Log2Floor(n \div 2)

RoundToDouble(n, dev, ulp1) ==
    LET ulp == ulp1 * Pow2(Log2Floor(IF dev < 0 THEN n - 1 ELSE n))
    IN  RoundDiv(dev, ulp) * ulp

\* int() of the double (n, dev)
IntOfDouble(n, dev) == IF dev < 0 THEN n - 1 ELSE n

(***************************************************************************)
(* weight_kg * WATER_BASE_ML_PER_KG as a double, in tenths of a ml with    *)
(* the deviation in units of 2^-52.  The double 33.3 is 33.3 - 12.8 *      *)
(* 2^-52, so the exact product of a weight that is a multiple of 10 kg     *)
(* lies 12.8 * weight units below a whole number; for any other whole      *)
(* weight the product is at least 0.1 ml away from a whole number and the  *)
(* deviation decides nothing.                                              *)
(***************************************************************************)
BaseProduct(weight_kg) ==
    LET tenths == weight_kg * WATER_BASE_ML_PER_KG
    IN  IF tenths % 10 # 0 THEN [tenths |-> tenths, dev |-> 0]
        ELSE [tenths |-> tenths,
              dev |-> RoundToDouble(tenths \div 10, -(128 * weight_kg) \div 10, 1)]

\* the double x plus the int m
AddInt(x, m) ==
    IF x.tenths % 10 # 0 \/ m = 0 THEN [tenths |-> x.tenths + 10 * m, dev |-> x.dev]
    ELSE [tenths |-> x.tenths + 10 * m,
          dev |-> RoundToDouble(x.tenths \div 10 + m, x.dev, 1)]

\* int() of the double x
IntOf(x) ==
    IF x.tenths % 10 # 0 THEN x.tenths \div 10
    ELSE IntOfDouble(x.tenths \div 10, x.dev)

(***************************************************************************)
(* int(WATER_ACTIVITY_ML_PER_1K_STEPS * (step_surplus / 1000.0)).  The     *)
(* exact value 3 * step_surplus / 50 is whole only for a surplus 50 * j;   *)
(* then the quotient j / 20 is rounded to a double first, with an error of *)
(* -rho/5 or (5 - rho)/5 of its ulp, where rho is the remainder of the     *)
(* scaled mantissa modulo 5, and the product by 60 is rounded again.       *)
(* Deviations are in units of 2^-60 / 5.                                   *)
(***************************************************************************)
ActivityMod(step_surplus) ==
    LET exact == (WATER_ACTIVITY_ML_PER_1K_STEPS * step_surplus) \div 1000
    IN  IF step_surplus = 0
           \/ (WATER_ACTIVITY_ML_PER_1K_STEPS * step_surplus) % 1000 # 0
        THEN exact
        ELSE LET j == step_surplus \div 50
                 \* j / 20 lies in the binade [2^(eq - 5), 2^(eq - 4))
                 eq == Log2Floor((8 * j) \div 5)
                 \* its scaled mantissa is j * 2^(55 - eq) / 5
                 rho == ((j % 5) * Pow2((55 - eq) % 4)) % 5
                 err == IF rho <= 2 THEN -rho ELSE 5 - rho
                 dev == WATER_ACTIVITY_ML_PER_1K_STEPS * err * Pow2(eq + 3)
             IN  IntOfDouble(exact, RoundToDouble(exact, dev, 1280))

compute_daily_goal(weight_kg, is_fasting, elvanse_active, steps, caffeine_doses) ==
    LET base_ml == BaseProduct(weight_kg)
        drug_mod == IF elvanse_active THEN WATER_DRUG_MODIFIER_ML ELSE 0
        fasting_mod == IF is_fasting THEN WATER_FASTING_MODIFIER_ML ELSE 0
        step_surplus == Max(0, steps - WATER_ACTIVITY_BASELINE_STEPS)
        activity_mod == ActivityMod(step_surplus)
        goal_ml == IntOf(AddInt(AddInt(AddInt(base_ml, drug_mod), fasting_mod), activity_mod))
    IN  [goal_ml |-> goal_ml,
         base_ml |-> IntOf(base_ml),
         drug_modifier_ml |-> drug_mod,
         fasting_modifier_ml |-> fasting_mod,
         activity_modifier_ml |-> activity_mod,
         weight_kg |-> weight_kg,
         is_fasting |-> is_fasting,
         elvanse_active |-> elvanse_active,
         steps |-> steps]

\* The expected cumulative intake as the exact fraction num / den of a ml.
expected_intake_sleep_first(hour, goal_ml, wake_hour, sleep_hour, is_fasting) ==
    IF hour >= sleep_hour THEN [num |-> goal_ml, den |-> 1]
    ELSE IF hour <= wake_hour THEN [num |-> 0, den |-> 1]
    ELSE [num |-> goal_ml * (hour - wake_hour), den |-> sleep_hour - wake_hour]

expected_intake_at_hour(hour, goal_ml, wake_hour, sleep_hour, is_fasting) ==
    IF hour <= wake_hour THEN [num |-> 0, den |-> 1]
    ELSE IF hour >= sleep_hour THEN [num |-> goal_ml, den |-> 1]
    ELSE LET waking_total == sleep_hour - wake_hour
             elapsed == hour - wake_hour
         IN  IF is_fasting
             THEN [num |-> goal_ml * elapsed, den |-> waking_total]
             ELSE [num |-> goal_ml * elapsed, den |-> waking_total]

\* An f-string: the text with its placeholders and the values put into them.
Message(text, args) == [text |-> text, args |-> args]

EmptyMessage == Message("", <<>>)

\* pct is the fraction num / den of a percent; progress_pct is in 1/10 percent.
_build_result(message, amount, priority, deadline, deficit, pacing, status, pct) ==
    [message |-> message,
     recommended_amount |-> amount,
     priority |-> priority,
     deadline_minutes |-> deadline,
     deficit_ml |-> deficit,
     pacing_ml_per_hour |-> pacing,
     status |-> status,
     progress_pct |-> RoundDiv(pct.num * 10, pct.den)]

\* The test that suppresses the deficit messages after a rapid intake.
SuppressedAtThreshold(recent_intake_30min_ml, deficit) ==
    recent_intake_30min_ml >= 500 /\ deficit > 0

Suppressed(recent_intake_30min_ml, deficit) ==
    recent_intake_30min_ml > 500 /\ deficit > 0

\* minutes_since > limit, for a last drink that is known
SinceLastDrink(now, last_drink_time, limit) ==
    last_drink_time # None /\ now - last_drink_time > limit

\* The ladder with the two last-drink rungs tried before the deficit rungs.
FirstRungTimeFirst(current_intake_ml, goal_ml, deficit, now, last_drink_time, hour, wake_hour, pacing) ==
    IF current_intake_ml >= goal_ml THEN 1
    ELSE IF SinceLastDrink(now, last_drink_time, 120) THEN 5
    ELSE IF SinceLastDrink(now, last_drink_time, 90) THEN 6
    ELSE IF deficit > 1000 THEN 2
    ELSE IF deficit > 500 THEN 3
    ELSE IF deficit > 200 THEN 4
    ELSE IF current_intake_ml = 0 /\ hour > wake_hour + 60 THEN 7
    ELSE IF pacing > 0 /\ deficit > 0 THEN 8
    ELSE 9

\* The number of the first `if` of the ladder whose condition holds
\* (9: none, the final return).
FirstRung(current_intake_ml, goal_ml, deficit, now, last_drink_time, hour, wake_hour, pacing) ==
    IF current_intake_ml >= goal_ml THEN 1
    ELSE IF deficit > 1000 THEN 2
    ELSE IF deficit > 500 THEN 3
    ELSE IF deficit > 200 THEN 4
    ELSE IF SinceLastDrink(now, last_drink_time, 120) THEN 5
    ELSE IF SinceLastDrink(now, last_drink_time, 90) THEN 6
    ELSE IF current_intake_ml = 0 /\ hour > wake_hour + 60 THEN 7
    ELSE IF pacing > 0 /\ deficit > 0 THEN 8
    ELSE 9

\* The return statement of each rung.
RungResult(rung, deficit, pacing, pct) ==
    CASE rung = 1 ->
           _build_result(EmptyMessage, 0, "none", 0, deficit, pacing, "goal_reached", pct)
      [] rung = 2 ->
           _build_result(Message("Stark im Rueckstand ({deficit} ml)! Trink jetzt {amount} ml.",
                                 <<deficit, Min(500, deficit)>>),
                         Min(500, deficit), "critical", 20, deficit, pacing, "critical", pct)
      [] rung = 3 ->
           _build_result(Message("Du bist {deficit} ml im Rueckstand. Trink {amount} ml!",
                                 <<deficit, Min(400, deficit)>>),
                         Min(400, deficit), "high", 30, deficit, pacing, "behind", pct)
      [] rung = 4 ->
           _build_result(Message("Etwas im Rueckstand ({deficit} ml). Trink {amount} ml.",
                                 <<deficit, Min(300, deficit)>>),
                         Min(300, deficit), "normal", 45, deficit, pacing, "behind", pct)
      [] rung = 5 ->
           _build_result(Message("Ueber 2 Stunden ohne Wasser - trink etwas!", <<>>),
                         250, "high", 15, deficit, pacing, "behind", pct)
      [] rung = 6 ->
           _build_result(Message("90 Min seit dem letzten Trinken. Trink 200 ml.", <<>>),
                         200, "normal", 30, deficit, pacing, "behind", pct)
      [] rung = 7 ->
           _build_result(Message("Noch nichts getrunken heute - starte jetzt!", <<>>),
                         250, "high", 15, deficit, pacing, "critical", pct)
      [] rung = 8 ->
           _build_result(Message("Gut dabei! Naechstes Glas: {min(250, pacing)} ml.",
                                 <<Min(250, pacing)>>),
                         Min(250, pacing), "low", 60, deficit, pacing, "on_track", pct)
      [] OTHER ->
           _build_result(EmptyMessage, 0, "none", 0, deficit, pacing, "on_track", pct)

assess_hydration(current_intake_ml, goal_ml, now, last_drink_time, wake_hour, sleep_hour, is_fasting, recent_intake_30min_ml) ==
    LET hour == HourOf(now)
        expected == expected_intake_at_hour(hour, goal_ml, wake_hour, sleep_hour, is_fasting)
        deficit == TruncDiv(expected.num - current_intake_ml * expected.den, expected.den)
        pct == IF goal_ml > 0 THEN [num |-> current_intake_ml * 100, den |-> goal_ml]
               ELSE [num |-> 0, den |-> 1]
        remaining_hours == Max(30, sleep_hour - hour)        \* minutes
        remaining_ml == Max(0, goal_ml - current_intake_ml)
        pacing == (remaining_ml * 60) \div remaining_hours
    IN  IF Suppressed(recent_intake_30min_ml, deficit)
        THEN _build_result(EmptyMessage, 0, "none", 0, deficit, pacing, "on_track", pct)
        ELSE RungResult(FirstRung(current_intake_ml, goal_ml, deficit, now,
                                  last_drink_time, hour, wake_hour, pacing),
                        deficit, pacing, pct)

\* One event's part of a window sum: an event whose timestamp does not parse
\* (None) is skipped, as is one outside [cutoff, now].
WindowTerm(ev, cutoff, now) ==
    IF ev.timestamp = None THEN 0
    ELSE IF ev.timestamp >= cutoff /\ ev.timestamp <= now THEN ev.amount_ml
    ELSE 0

RECURSIVE SumWindow(_, _, _)
SumWindow(water_events, cutoff, now) ==
    IF water_events = <<>> THEN 0
    ELSE WindowTerm(Head(water_events), cutoff, now)
         + SumWindow(Tail(water_events), cutoff, now)

recent_intake_in_window(water_events, window_minutes, now) ==
    SumWindow(water_events, now - window_minutes, now)

VelocityResult(recent_ml, alert) ==
    [last_60min_ml |-> recent_ml,
     max_hourly_ml |-> WATER_MAX_HOURLY_ML,
     alert |-> alert,
     message |-> IF alert
                 THEN Message("ACHTUNG: {recent_ml} ml in 60 Min! Max {WATER_MAX_HOURLY_ML} ml/h um Hyponatriaemie zu vermeiden. Trinkpause einlegen!",
                              <<recent_ml, WATER_MAX_HOURLY_ML>>)
                 ELSE EmptyMessage]

\* The velocity check alerting already at the cap.
check_intake_velocity_at_cap(water_events, now) ==
    LET recent_ml == SumWindow(water_events, now - 60, now)
    IN  VelocityResult(recent_ml, recent_ml >= WATER_MAX_HOURLY_ML)

check_intake_velocity(water_events, now) ==
    LET one_hour_ago == now - 60
        recent_ml == SumWindow(water_events, one_hour_ago, now)
    IN  VelocityResult(recent_ml, recent_ml > WATER_MAX_HOURLY_ML)

\* ------------------------------------------------- dehydration from vitals

\* Heart rates are in bpm, HRV in ms; the rounded result fields are in tenths.
DEHYDRATION_HR_DRIFT_BPM == 4
DEHYDRATION_HRV_DROP_PCT == 15

DehydrationResult(alert, hr_drift, drop_num, drop_den) ==
    [alert |-> alert,
     hr_drift_bpm |-> hr_drift * 10,
     hrv_drop_pct |-> RoundDiv(drop_num * 1000, drop_den),
     message |-> IF alert
                 THEN Message("Dehydrierung erkannt! Ruhepuls +{hr_drift:.0f} bpm, HRV -{hrv_drop_pct:.0f}%. Sofort 500 ml trinken!",
                              <<hr_drift, RoundDiv(drop_num * 100, drop_den)>>)
                 ELSE EmptyMessage,
     estimated_body_mass_loss_pct |-> IF hr_drift > 0 THEN RoundDiv(hr_drift * 10, 4) ELSE 0]

detect_dehydration_either(current_resting_hr, baseline_resting_hr, current_hrv, baseline_hrv) ==
    IF current_resting_hr = None \/ baseline_resting_hr = None
    THEN [alert |-> FALSE, message |-> EmptyMessage]
    ELSE LET hr_drift == current_resting_hr - baseline_resting_hr
             has_hrv == current_hrv # None /\ baseline_hrv # None /\ baseline_hrv > 0
             drop_num == IF has_hrv THEN baseline_hrv - current_hrv ELSE 0
             drop_den == IF has_hrv THEN baseline_hrv ELSE 1
             alert == \/ hr_drift >= DEHYDRATION_HR_DRIFT_BPM
                      \/ drop_num * 100 >= DEHYDRATION_HRV_DROP_PCT * drop_den
         IN  DehydrationResult(alert, hr_drift, drop_num, drop_den)

\* hrv_drop_pct is the exact fraction 100 * drop_num / drop_den.
detect_dehydration_from_vitals(current_resting_hr, baseline_resting_hr, current_hrv, baseline_hrv) ==
    IF current_resting_hr = None \/ baseline_resting_hr = None
    THEN [alert |-> FALSE, message |-> EmptyMessage]
    ELSE LET hr_drift == current_resting_hr - baseline_resting_hr
             has_hrv == current_hrv # None /\ baseline_hrv # None /\ baseline_hrv > 0
             drop_num == IF has_hrv THEN baseline_hrv - current_hrv ELSE 0
             drop_den == IF has_hrv THEN baseline_hrv ELSE 1
             alert == /\ hr_drift >= DEHYDRATION_HR_DRIFT_BPM
                      /\ drop_num * 100 >= DEHYDRATION_HRV_DROP_PCT * drop_den
         IN  DehydrationResult(alert, hr_drift, drop_num, drop_den)

\* water_engine.generate_hydration_curve: one point of expected_curve.  The
\* hours (minutes here) are multiples of a quarter of an hour, which
\* round(h, 2) leaves as they are.
CurvePoint(i, goal_ml, wake_hour, sleep_hour, is_fasting) ==
    LET h0 == wake_hour + i * 30
        h == IF h0 > sleep_hour THEN sleep_hour ELSE h0
        expected_ml == expected_intake_at_hour(h, goal_ml, wake_hour, sleep_hour, is_fasting)
    IN  [hour |-> h, ml |-> TruncDiv(expected_ml.num, expected_ml.den)]

\* One of the four forward targets.
CurveTarget(minutes, current_hour, current_intake_ml, goal_ml, wake_hour, sleep_hour, is_fasting) ==
    LET t0 == current_hour + minutes
        target_hour == IF t0 > sleep_hour THEN sleep_hour ELSE t0
        expected_ml == expected_intake_at_hour(target_hour, goal_ml, wake_hour,
                                               sleep_hour, is_fasting)
        target_ml == TruncDiv(expected_ml.num, expected_ml.den)
    IN  [minutes |-> minutes,
         target_ml |-> target_ml,
         delta_ml |-> Max(0, target_ml - current_intake_ml),
         label |-> IF minutes < 60 THEN "{minutes}'" ELSE "1h"]

generate_hydration_curve(current_intake_ml, goal_ml, now, wake_hour, sleep_hour, is_fasting) ==
    LET current_hour == HourOf(now)
        steps == TruncDiv(sleep_hour - wake_hour, 30) + 1
        current_expected == expected_intake_at_hour(current_hour, goal_ml, wake_hour,
                                                    sleep_hour, is_fasting)
    IN  [current_ml |-> current_intake_ml,
         goal_ml |-> goal_ml,
         current_hour |-> current_hour,
         current_expected_ml |-> TruncDiv(current_expected.num, current_expected.den),
         wake_hour |-> wake_hour,
         sleep_hour |-> sleep_hour,
         targets |-> [k \in 1..4 |->
                         CurveTarget(15 * k, current_hour, current_intake_ml, goal_ml,
                                     wake_hour, sleep_hour, is_fasting)],
         expected_curve |-> [k \in 1..steps |->
                                CurvePoint(k - 1, goal_ml, wake_hour, sleep_hour,
                                           is_fasting)]]

\* The rows of a table as its queries return them: ORDER BY timestamp, rows of
\* one timestamp in the order of insertion.
InsertByTimestamp(list, row) ==
    LET before == SelectSeq(list, LAMBDA r : r.timestamp <= row.timestamp)
        after == SelectSeq(list, LAMBDA r : r.timestamp > row.timestamp)
    IN  before \o <<row>> \o after

\* ------------------------------------------- database.py, api/routes.py

\* The grid point 23:59 of a day stands for an instant of its last second,
\* 23:59:59 and a fraction: isoformat() writes the fraction, and the text
\* "...T23:59:59.5" sorts after the upper end "...T23:59:59" of the BETWEEN.
\* At every other time of day the model's instants are whole minutes.
LastSecondOfDay == 1439

\* A timestamp of the day of `now`: the BETWEEN of get_todays_water_events and
\* of the query_intakes call in _compute_today_goal, from "T00:00:00" to
\* "T23:59:59" of today.
Today(ts, now) ==
    /\ ts \div 1440 = now \div 1440
    /\ ts % 1440 # LastSecondOfDay

get_todays_water_events(rows, now) ==
    SelectSeq(rows, LAMBDA r : Today(r.timestamp, now))

RECURSIVE SumAmounts(_)
SumAmounts(events) ==
    IF events = <<>> THEN 0 ELSE Head(events).amount_ml + SumAmounts(Tail(events))

get_todays_water_total(rows, now) == SumAmounts(get_todays_water_events(rows, now))

\* database.insert_water_event: the row gets the next id and, without a
\* timestamp of the client, the current time.
insert_water_event(rows, amount_ml, source, timestamp, now) ==
    [id |-> Len(rows) + 1,
     timestamp |-> IF timestamp = None THEN now ELSE timestamp,
     amount_ml |-> amount_ml,
     source |-> source]

\* No weight has been logged: the weight of the configuration.
_get_effective_weight == USER_WEIGHT_KG

\* No health snapshot has been stored: steps stay 0.
_compute_today_goal(list, now, fasting) ==
    LET today == SelectSeq(list, LAMBDA i : Today(i.timestamp, now))
        elvanse_active == \E k \in 1..Len(today) : today[k].substance = "elvanse"
        steps == 0
        caffeine_doses == Cardinality({k \in 1..Len(today) : today[k].substance = "mate"})
    IN  compute_daily_goal(_get_effective_weight, fasting, elvanse_active, steps,
                           caffeine_doses)

\* An override that replaces message and priority but keeps the amount.
VelocityOverrideKeepsAmount(assessment, velocity) ==
    [message |-> IF velocity.alert THEN velocity.message ELSE assessment.message,
     priority |-> IF velocity.alert THEN "critical" ELSE assessment.priority,
     recommended_amount |-> assessment.recommended_amount,
     deadline_minutes |-> assessment.deadline_minutes]

\* The four fields of the instruction: those of the assessment, replaced
\* when the velocity alert is active.
VelocityOverride(assessment, velocity) ==
    IF velocity.alert
    THEN [message |-> velocity.message,
          priority |-> "critical",
          recommended_amount |-> 0,
          deadline_minutes |-> 0]
    ELSE [message |-> assessment.message,
          priority |-> assessment.priority,
          recommended_amount |-> assessment.recommended_amount,
          deadline_minutes |-> assessment.deadline_minutes]

\* The instruction both watch endpoints build (without the two curves, which
\* are computed from intake, goal and time alone and change no state).
Instruction(rows, list, now, fasting, intake, daily_goal, last_drink_time) ==
    LET computed_goal == _compute_today_goal(list, now, fasting).goal_ml
        water_events == get_todays_water_events(rows, now)
        velocity == check_intake_velocity(water_events, now)
        recent_30 == recent_intake_in_window(water_events, 30, now)
        assessment == assess_hydration(intake, computed_goal, now, last_drink_time,
                                       DEFAULT_WAKE_HOUR, DEFAULT_SLEEP_HOUR,
                                       fasting, recent_30)
        fields == VelocityOverride(assessment, velocity)
    IN  [message |-> fields.message,
         recommended_amount |-> fields.recommended_amount,
         priority |-> fields.priority,
         deadline_minutes |-> fields.deadline_minutes,
         daily_target_override |-> IF computed_goal # daily_goal THEN computed_goal ELSE 0,
         timestamp |-> now,
         velocity_warning |-> [alert |-> velocity.alert,
                               message |-> velocity.message,
                               recent_ml |-> velocity.last_60min_ml,
                               window_minutes |-> 60],
         events_today |-> Len(water_events)]

water_instruction_endpoint(rows, list, now, fasting, current_intake, daily_goal, last_drink_time) ==
    Instruction(rows, list, now, fasting, current_intake, daily_goal, last_drink_time)

\* The rows after the watch's total has been synchronised into the database.
WatchSync(rows, now, watch_intake) ==
    LET db_total == get_todays_water_total(rows, now)
        delta == watch_intake - db_total
    IN  IF watch_intake > 0 /\ delta > 0
        THEN InsertByTimestamp(rows, insert_water_event(rows, delta, "watch", None, now))
        ELSE rows

\* rows: the table after WatchSync
water_report_endpoint(rows, list, now, fasting, watch_intake, daily_goal, last_drink_time) ==
    LET intake == IF watch_intake > 0 THEN watch_intake
                  ELSE get_todays_water_total(rows, now)
    IN  [status |-> "ok",
         instruction |-> Instruction(rows, list, now, fasting, intake, daily_goal,
                                     last_drink_time)]

\* rows: the table with the new row, whose id is row_id
log_water_intake(rows, now, row_id, amount_ml) ==
    LET velocity == check_intake_velocity(get_todays_water_events(rows, now), now)
    IN  [id |-> row_id, amount_ml |-> amount_ml, status |-> "ok",
         warning |-> IF velocity.alert THEN <<velocity>> ELSE <<>>]

\* database.get_last_water_event: the row with the greatest timestamp of the
\* whole table (the rows are kept in timestamp order); an Optional[dict] is
\* the empty sequence or the sequence of the one row.
get_last_water_event(rows) == IF rows = <<>> THEN <<>> ELSE <<rows[Len(rows)]>>

\* A stored health snapshot; the watch sends no step count with it.
Snapshot(rhr, hv) == [resting_hr |-> rhr, hrv |-> hv, steps |-> None]

\* The same endpoint with the baseline of a morning snapshot (60 bpm, 40 ms)
\* in place of the latest one.
water_status_morning_baseline(rows, list, now, fasting, latest_health) ==
    LET goal_data == _compute_today_goal(list, now, fasting)
        total_ml == get_todays_water_total(rows, now)
        events == get_todays_water_events(rows, now)
        last_event == get_last_water_event(rows)
        last_drink == IF last_event # <<>> THEN last_event[1].timestamp ELSE None
        recent_30 == recent_intake_in_window(events, 30, now)
    IN  [timestamp |-> now,
         goal |-> goal_data,
         intake_ml |-> total_ml,
         events_today |-> Len(events),
         assessment |-> assess_hydration(total_ml, goal_data.goal_ml, now, last_drink,
                                         DEFAULT_WAKE_HOUR, DEFAULT_SLEEP_HOUR,
                                         fasting, recent_30),
         velocity |-> check_intake_velocity(events, now),
         dehydration |-> IF latest_health # <<>>
                         THEN detect_dehydration_from_vitals(
                                  latest_health[1].resting_hr, 60, latest_health[1].hrv, 40)
                         ELSE [alert |-> FALSE],
         weight_kg |-> _get_effective_weight]

\* GET /water/status.  latest_health: the result of get_latest_health_snapshot,
\* the empty sequence when the table is empty.
water_status_endpoint(rows, list, now, fasting, latest_health) ==
    LET goal_data == _compute_today_goal(list, now, fasting)
        total_ml == get_todays_water_total(rows, now)
        events == get_todays_water_events(rows, now)
        last_event == get_last_water_event(rows)
        last_drink == IF last_event # <<>> THEN last_event[1].timestamp ELSE None
        recent_30 == recent_intake_in_window(events, 30, now)
    IN  [timestamp |-> now,
         goal |-> goal_data,
         intake_ml |-> total_ml,
         events_today |-> Len(events),
         assessment |-> assess_hydration(total_ml, goal_data.goal_ml, now, last_drink,
                                         DEFAULT_WAKE_HOUR, DEFAULT_SLEEP_HOUR,
                                         fasting, recent_30),
         velocity |-> check_intake_velocity(events, now),
         dehydration |-> IF latest_health # <<>>
                         THEN detect_dehydration_from_vitals(
                                  latest_health[1].resting_hr, latest_health[1].resting_hr,
                                  latest_health[1].hrv, latest_health[1].hrv)
                         ELSE [alert |-> FALSE],
         weight_kg |-> _get_effective_weight]


\* database.query_intakes between today's 00:00:00 and 23:59:59, as ddi_check
\* and log_intake call it.
query_todays_intakes(rows, now) == SelectSeq(rows, LAMBDA i : Today(i.timestamp, now))

\* GET /ddi-check: the warnings of check_ddi_warnings on today's intakes.
ddi_check(rows, now, fasting) ==
    LET warnings == check_ddi_warnings(query_todays_intakes(rows, now), now, fasting)
    IN  [timestamp |-> now, warnings |-> warnings, warning_count |-> Len(warnings)]

\* The row POST /intake stores: a dose the request leaves out is replaced by
\* the default of the substance.
LoggedIntake(req) ==
    [timestamp |-> req.timestamp,
     substance |-> req.substance,
     dose_mg |-> IF req.dose_mg = None THEN default_dose(req.substance) ELSE req.dose_mg]

\* POST /intake.  rows: the table with the new row.  The warnings are
\* computed, on today's intakes, only when the substance is co_dafalgan.
log_intake(rows, now, req, fasting) ==
    [substance |-> req.substance,
     dose_mg |-> LoggedIntake(req).dose_mg,
     status |-> "ok",
     warnings |-> IF req.substance = "co_dafalgan"
                  THEN check_ddi_warnings(query_todays_intakes(rows, now), now, fasting)
                  ELSE <<>>]


\* ------------------------------------------------------------------ inputs

MaxIntakes == 3

(***************************************************************************)
(* Instants, in minutes since midnight of day 0, all on the hour so that   *)
(* every elapsed time is a sample of the curve tables.  Intakes are logged *)
(* at day 0 11:00 (660) and day 1 08:00 (1920), 11:00 (2100) and 12:00     *)
(* (2160); the engine is asked about day 1 11:00, 12:00 and 21:00 (2700).  *)
(* Seen from 11:00 an intake of 12:00 is in the future, one of 11:00 is    *)
(* stamped at the target and the one of day 0 is exactly 24h old; seen     *)
(* from 12:00 that one is 25h old.  A dose is absent (None), recorded as   *)
(* 1500 mg or recorded as 0 mg.                                            *)
(***************************************************************************)
TargetTimes == {2100, 2160, 2700}

Intake(ts, s, d) == [timestamp |-> ts, substance |-> s, dose_mg |-> d]

IntakeChoices ==
    {Intake(1920, "elvanse", None), Intake(2160, "elvanse", None),
     Intake(2100, "medikinet", None), Intake(2160, "medikinet_retard", None),
     Intake(1920, "mate", None), Intake(2100, "mate", None),
     Intake(660, "co_dafalgan", 1500), Intake(1920, "co_dafalgan", 1500),
     Intake(2100, "co_dafalgan", 0), Intake(2160, "co_dafalgan", None)}

\* sleep_duration_min, sleep_confidence, hrv_ms, resting_hr of one call
HealthChoices ==
    {[sleep |-> None, conf |-> None, hrv |-> None, rhr |-> None],
     [sleep |-> 240, conf |-> None, hrv |-> 15, rhr |-> 105],
     [sleep |-> 600, conf |-> 50, hrv |-> None, rhr |-> None]}

MaxWaterEvents == 3

(***************************************************************************)
(* The wall clock of the hydration requests: day 1, 10:00 to 11:30 in      *)
(* steps of 30 minutes, so that a stored event can be exactly 30 or 60     *)
(* minutes old, older than that, or (stamped by the client) 30 minutes in  *)
(* the future.                                                             *)
(***************************************************************************)
ClockTimes == {2040, 2070, 2100, 2130}

FirstClock == CHOOSE t \in ClockTimes : \A u \in ClockTimes : t <= u

\* amount_ml of a logged drink: 400 + 400 is the hourly cap, 400 + 500 is
\* above it, 500 is the limit of the rapid-intake suppression
WaterAmounts == {400, 500}

\* current_intake, daily_goal and last_drink_time as the watch sends them
WatchRequest(c, g, l) == [current_intake |-> c, daily_goal |-> g, last_drink_time |-> l]

InstructionRequests(now) ==
    {WatchRequest(0, 0, None), WatchRequest(0, 3696, now - 150),
     WatchRequest(900, 0, now - 100), WatchRequest(4000, 3196, None)}

ReportRequests(now) ==
    {WatchRequest(0, 0, None), WatchRequest(900, 0, now - 150),
     WatchRequest(1300, 3696, None)}

\* The newest row of health_snapshots when /water/status is called: none, or
\* one whose resting HR or HRV may be missing; 64 bpm and 34 ms are a drift of
\* 4 bpm and a drop of 15 % against a baseline of 60 bpm and 40 ms.
StatusSnapshots ==
    {<<>>, <<Snapshot(64, 34)>>, <<Snapshot(105, 0)>>, <<Snapshot(None, 40)>>,
     <<Snapshot(70, None)>>}

\* Arguments of generate_hydration_curve: a waking day of whole half hours
\* (07:00 or 08:00 to 23:00) or not (to 22:45), a time of day before the
\* wake hour, within the day, and within an hour of the sleep hour.
CurveNows == {1800, 2100, 2805, 2820}
CurveCurrentIntakes == {0, 900, 2000}
CurveGoals == {0, 1500, 3000}
CurveWakeHours == {420, 480}
CurveSleepHours == {1365, 1380}

(***************************************************************************)
(* Arguments of a direct call of assess_hydration.  The times of day are   *)
(* multiples of 30 minutes, for which the engine's floating-point hour,    *)
(* progress and expected intake are exact.                                 *)
(***************************************************************************)
AssessIntakes == {0, 250, 1200, 4000}
AssessGoals == {0, 1500, 3196, 3696}
AssessTimes == {1830, 1860, 1920, 1950, 2040, 2220, 2640, 2820, 2850}
AssessLastDrink(now) == {None, now - 90, now - 120, now - 150}
AssessRecent == {0, 500, 600}

\* Inputs of the pure water_engine calls.
GoalWeights == {45, 60, 70, 96, 100}
GoalSteps == {0, 3999, 4000, 6050, 6500, 12345}

ExpectedHours == {0, 360, 420, 421, 450, 720, 900, 1379, 1380, 1439}
ExpectedGoals == {0, 1000, 1500}
ExpectedWakeHours == {420, 480, 1380}
ExpectedSleepHours == {420, 900, 1380}

VitalsRestingHr == {None, 60, 63, 64, 70}
VitalsBaselineHr == {None, 60}
VitalsHrv == {None, 30, 34, 35, 40, 50}
VitalsBaselineHrv == {None, 0, 40}

\* Inputs of the pure bio_engine calls: HRV in ms, heart rate in bpm, levels
\* in 1/1000, sleep in minutes, confidence in percent, hours in minutes.
HrvValues == {None, 15, 25, 35, 45, 60}
RestingHrValues == {None, 80, 95, 100, 105}
StimLevels == {0, 49, 50, 199, 200, 300, 400, 499, 500, 600, 849, 850, 1000}
SleepDurations == {None, 240, 330, 400, 450, 500, 600}
SleepConfidences == {None, 0, 30, 50, 100}
PhaseHours == {0, 359, 360, 419, 420, 600, 749, 750, 870, 871, 1199, 1200, 1380}
DayMinutes == 0 .. 1439

\* Inputs of the day curve: the date (any time of day 1), the interval and
\* the stored intakes.
CurveDates == {1440, 2100}
CurveIntervals == {15, 60, 420, 1000, 1440}
CurveIntakes ==
    {<<>>,
     <<Intake(1920, "elvanse", None)>>,
     <<Intake(1920, "elvanse", None), Intake(2100, "mate", None)>>,
     <<Intake(1920, "mate", None), Intake(2100, "medikinet", None),
       Intake(2160, "co_dafalgan", None)>>}

\* Inputs of the superposition aggregators: up to MaxIntakes intakes of one
\* substance, all taken at 11:00 of day 0, and targets 9, 22, 23 and 24 h later.
SuperpositionSubstances == {"medikinet", "mate"}
SuperpositionTargets == {1200, 1980, 2040, 2100}
RepeatedIntake(substance, k) == [i \in 1 .. k |-> Intake(660, substance, None)]

MaxHandlers == 3
Handlers == 1 .. MaxHandlers
DirectCaller == 1
Idle == [pc |-> "idle"]
EmptyCache == [k \in {} |-> 0]

NoCall == [op |-> "none"]

\* ----------------------------------------------------------------- actions

CascadeInit ==
    /\ peakCache = EmptyCache
    /\ handlers = [h \in Handlers |-> Idle]

Init ==
    /\ intakes = <<>>
    /\ isFasting \in BOOLEAN
    /\ bioCall = NoCall
    /\ waterEvents = <<>>
    /\ clock = FirstClock
    /\ waterGoal = None
    /\ waterCall = NoCall
    /\ CascadeInit

\* database.insert_intake
LogIntake ==
    \E row \in IntakeChoices :
        /\ bioCall = NoCall
        /\ Len(intakes) < MaxIntakes
        /\ intakes' = InsertByTimestamp(intakes, row)
        /\ bioCall' = NoCall
        /\ UNCHANGED <<cascadeVars, isFasting, waterVars>>

\* bio_engine.compute_bio_score on the stored intakes
ComputeBioScore ==
    \E t \in TargetTimes, h \in HealthChoices :
        /\ bioCall = NoCall
        /\ bioCall' = [op |-> "compute_bio_score", target |-> t, health |-> h,
                       result |-> compute_bio_score(t, intakes, h.sleep, h.conf,
                                                    h.hrv, h.rhr, isFasting)]
        /\ UNCHANGED <<cascadeVars, intakes, isFasting, waterVars>>

\* bio_engine.check_ddi_warnings on the stored intakes
CheckDdiWarnings ==
    \E t \in TargetTimes :
        /\ bioCall = NoCall
        /\ bioCall' = [op |-> "check_ddi_warnings", target |-> t,
                       result |-> check_ddi_warnings(intakes, t, isFasting)]
        /\ UNCHANGED <<cascadeVars, intakes, isFasting, waterVars>>

\* The caller has read the result: the engine keeps nothing of a call.
ReturnBio ==
    /\ bioCall # NoCall
    /\ bioCall' = NoCall
    /\ UNCHANGED <<cascadeVars, intakes, isFasting, waterVars>>

NextBio == LogIntake \/ ComputeBioScore \/ CheckDdiWarnings \/ ReturnBio

SpecBio == Init /\ [][NextBio]_vars

\* A call of bio_engine.hrv_penalty.
HrvPenalty ==
    \E hv \in HrvValues, hr \in RestingHrValues, st \in StimLevels :
        /\ bioCall = NoCall
        /\ bioCall' = [op |-> "hrv_penalty",
                       args |-> [hrv_ms |-> hv, resting_hr |-> hr, stim_level |-> st],
                       result |-> hrv_penalty(hv, hr, st)]
        /\ UNCHANGED <<cascadeVars, intakes, isFasting, waterVars>>

\* A call of bio_engine.sleep_quality_modifier.
SleepQualityModifier ==
    \E d \in SleepDurations, c \in SleepConfidences :
        /\ bioCall = NoCall
        /\ bioCall' = [op |-> "sleep_quality_modifier",
                       args |-> [sleep_duration_min |-> d, sleep_confidence |-> c],
                       result |-> sleep_quality_modifier(d, c)]
        /\ UNCHANGED <<cascadeVars, intakes, isFasting, waterVars>>

\* A call of bio_engine._determine_phase.
DeterminePhase ==
    \E st \in StimLevels, h \in PhaseHours :
        /\ bioCall = NoCall
        /\ bioCall' = [op |-> "_determine_phase",
                       args |-> [stim_level |-> st, caffeine_lv |-> 0, hour |-> h],
                       result |-> _determine_phase(st, 0, h)]
        /\ UNCHANGED <<cascadeVars, intakes, isFasting, waterVars>>

\* A call of bio_engine.circadian_base_score.
CircadianBaseScore ==
    \E h \in DayMinutes :
        /\ bioCall = NoCall
        /\ bioCall' = [op |-> "circadian_base_score", args |-> [hour |-> h],
                       result |-> circadian_base_score(h)]
        /\ UNCHANGED <<cascadeVars, intakes, isFasting, waterVars>>

\* A call of bio_engine.compute_substance_load_ngml.
ComputeSubstanceLoad ==
    \E sub \in SuperpositionSubstances, k \in 0 .. MaxIntakes, t \in SuperpositionTargets :
        /\ bioCall = NoCall
        /\ bioCall' = [op |-> "compute_substance_load_ngml",
                       args |-> [intakes |-> RepeatedIntake(sub, k), target_time |-> t,
                                 substance |-> sub],
                       result |-> compute_substance_load_ngml(RepeatedIntake(sub, k), t, sub,
                                                              default_dose(sub))]
        /\ UNCHANGED <<cascadeVars, intakes, isFasting, waterVars>>

\* A call of bio_engine.compute_substance_level.
ComputeSubstanceLevel ==
    \E sub \in SuperpositionSubstances, k \in 0 .. MaxIntakes, t \in SuperpositionTargets :
        /\ bioCall = NoCall
        /\ bioCall' = [op |-> "compute_substance_level",
                       args |-> [intakes |-> RepeatedIntake(sub, k), target_time |-> t,
                                 substance |-> sub],
                       result |-> compute_substance_level(RepeatedIntake(sub, k), t, sub,
                                                          default_dose(sub))]
        /\ UNCHANGED <<cascadeVars, intakes, isFasting, waterVars>>

NextBioEngine ==
    \/ HrvPenalty \/ SleepQualityModifier \/ DeterminePhase \/ CircadianBaseScore
    \/ ComputeSubstanceLoad \/ ComputeSubstanceLevel \/ ReturnBio

SpecBioEngine == Init /\ [][NextBioEngine]_vars

\* The stored intakes are an input of the score and of the curve.
InitCurve ==
    /\ intakes \in CurveIntakes
    /\ isFasting \in BOOLEAN
    /\ bioCall = NoCall
    /\ waterEvents = <<>>
    /\ clock = FirstClock
    /\ waterGoal = None
    /\ waterCall = NoCall
    /\ CascadeInit

\* bio_engine.compute_bio_score at any minute of day 1
ComputeBioScoreAt ==
    \E m \in DayMinutes, h \in HealthChoices :
        /\ bioCall = NoCall
        /\ bioCall' = [op |-> "compute_bio_score", target |-> 1440 + m, health |-> h,
                       result |-> compute_bio_score(1440 + m, intakes, h.sleep, h.conf,
                                                    h.hrv, h.rhr, isFasting)]
        /\ UNCHANGED <<cascadeVars, intakes, isFasting, waterVars>>

\* bio_engine.generate_day_curve on the stored intakes
GenerateDayCurve ==
    \E d \in CurveDates, iv \in CurveIntervals, h \in HealthChoices :
        /\ bioCall = NoCall
        /\ bioCall' = [op |-> "generate_day_curve", date |-> d, interval_minutes |-> iv,
                       health |-> h,
                       result |-> generate_day_curve(d, intakes, h, iv, isFasting)]
        /\ UNCHANGED <<cascadeVars, intakes, isFasting, waterVars>>

NextCurve == ComputeBioScoreAt \/ GenerateDayCurve \/ ReturnBio

SpecCurve == InitCurve /\ [][NextCurve]_vars

nonCascadeVars == <<intakes, isFasting, bioCall, waterEvents, clock, waterGoal, waterCall>>

\* A request handler thread enters _cascade_peak through elvanse_level or
\* elvanse_concentration, with the configured rate constants.
HandlerCallsCascadePeak(h) ==
    /\ handlers[h].pc = "idle"
    /\ handlers' = [handlers EXCEPT ![h] = [pc |-> "check", rates |-> ElvanseRates]]
    /\ UNCHANGED <<peakCache, nonCascadeVars>>

\* A direct call of _cascade_peak with any rate triple, one call after another.
CallCascadePeak ==
    \E rates \in RateTriples :
        /\ handlers[DirectCaller].pc = "idle"
        /\ handlers' = [handlers EXCEPT ![DirectCaller] = [pc |-> "check", rates |-> rates]]
        /\ UNCHANGED <<peakCache, nonCascadeVars>>

\* if key in _CASCADE_PEAK_CACHE: return _CASCADE_PEAK_CACHE[key]
CheckKey(h) ==
    /\ handlers[h].pc = "check"
    /\ LET key == CacheKey(handlers[h].rates)
       IN  handlers' = [handlers EXCEPT ![h] =
                          IF key \in DOMAIN peakCache
                          THEN [pc |-> "returned", rates |-> handlers[h].rates,
                                result |-> peakCache[key]]
                          ELSE [pc |-> "sweep", rates |-> handlers[h].rates]]
    /\ UNCHANGED <<peakCache, nonCascadeVars>>

\* the for loop over 3000 samples, on the thread's own local peak
Sweep(h) ==
    /\ handlers[h].pc = "sweep"
    /\ handlers' = [handlers EXCEPT ![h] =
                       [pc |-> "insert", rates |-> handlers[h].rates,
                        peak |-> SweepPeak(handlers[h].rates)]]
    /\ UNCHANGED <<peakCache, nonCascadeVars>>

\* _CASCADE_PEAK_CACHE[key] = peak; return peak
InsertPeak(h) ==
    /\ handlers[h].pc = "insert"
    /\ peakCache' = CacheInsert(peakCache, CacheKey(handlers[h].rates), handlers[h].peak)
    /\ handlers' = [handlers EXCEPT ![h] =
                       [pc |-> "returned", rates |-> handlers[h].rates,
                        result |-> handlers[h].peak]]
    /\ UNCHANGED nonCascadeVars

\* The caller has the returned peak.
ReturnPeak(h) ==
    /\ handlers[h].pc = "returned"
    /\ handlers' = [handlers EXCEPT ![h] = Idle]
    /\ UNCHANGED <<peakCache, nonCascadeVars>>

NextHandlers ==
    \E h \in Handlers :
        HandlerCallsCascadePeak(h) \/ CheckKey(h) \/ Sweep(h) \/ InsertPeak(h) \/ ReturnPeak(h)

SpecHandlers == Init /\ [][NextHandlers]_vars

NextCascade ==
    \/ CallCascadePeak
    \/ CheckKey(DirectCaller) \/ Sweep(DirectCaller) \/ InsertPeak(DirectCaller)
    \/ ReturnPeak(DirectCaller)

SpecCascade == Init /\ [][NextCascade]_vars

\* ======================================================================
\* The hydration engine called directly, and the hydration endpoints
\* ======================================================================

\* water_engine.assess_hydration with arguments of the caller's choice
AssessHydration ==
    \E c \in AssessIntakes, g \in AssessGoals, t \in AssessTimes, r \in AssessRecent :
        \E l \in AssessLastDrink(t) :
            /\ waterCall = NoCall
            /\ waterCall' = [op |-> "assess_hydration",
                             args |-> [current_intake_ml |-> c, goal_ml |-> g, now |-> t,
                                       last_drink_time |-> l,
                                       recent_intake_30min_ml |-> r],
                             result |-> assess_hydration(c, g, t, l, DEFAULT_WAKE_HOUR,
                                                         DEFAULT_SLEEP_HOUR, isFasting, r)]
            /\ UNCHANGED <<cascadeVars, intakes, isFasting, bioCall, waterEvents, clock, waterGoal>>

\* A call of water_engine.compute_daily_goal.
ComputeDailyGoal ==
    \E wt \in GoalWeights, f \in BOOLEAN, e \in BOOLEAN, st \in GoalSteps :
        /\ waterCall = NoCall
        /\ waterCall' = [op |-> "compute_daily_goal",
                         args |-> [weight_kg |-> wt, is_fasting |-> f,
                                   elvanse_active |-> e, steps |-> st],
                         result |-> compute_daily_goal(wt, f, e, st, 0)]
        /\ UNCHANGED <<cascadeVars, intakes, isFasting, bioCall, waterEvents, clock, waterGoal>>

\* A call of water_engine.expected_intake_at_hour.
ExpectedIntakeAtHour ==
    \E h \in ExpectedHours, g \in ExpectedGoals, wk \in ExpectedWakeHours, sl \in ExpectedSleepHours, f \in BOOLEAN :
        /\ waterCall = NoCall
        /\ waterCall' = [op |-> "expected_intake_at_hour",
                         args |-> [hour |-> h, goal_ml |-> g, wake_hour |-> wk,
                                   sleep_hour |-> sl, is_fasting |-> f],
                         result |-> expected_intake_at_hour(h, g, wk, sl, f)]
        /\ UNCHANGED <<cascadeVars, intakes, isFasting, bioCall, waterEvents, clock, waterGoal>>

\* A call of water_engine.generate_hydration_curve.
GenerateHydrationCurve ==
    \E c \in CurveCurrentIntakes, g \in CurveGoals, now \in CurveNows, wk \in CurveWakeHours, sl \in CurveSleepHours, f \in BOOLEAN :
        /\ waterCall = NoCall
        /\ waterCall' = [op |-> "generate_hydration_curve",
                         args |-> [current_intake_ml |-> c, goal_ml |-> g, now |-> now,
                                   wake_hour |-> wk, sleep_hour |-> sl, is_fasting |-> f],
                         result |-> generate_hydration_curve(c, g, now, wk, sl, f)]
        /\ UNCHANGED <<cascadeVars, intakes, isFasting, bioCall, waterEvents, clock, waterGoal>>

\* A call of water_engine.detect_dehydration_from_vitals.
DetectDehydration ==
    \E hr \in VitalsRestingHr, bhr \in VitalsBaselineHr, hv \in VitalsHrv, bhv \in VitalsBaselineHrv :
        /\ waterCall = NoCall
        /\ waterCall' = [op |-> "detect_dehydration_from_vitals",
                         args |-> [current_resting_hr |-> hr, baseline_resting_hr |-> bhr,
                                   current_hrv |-> hv, baseline_hrv |-> bhv],
                         result |-> detect_dehydration_from_vitals(hr, bhr, hv, bhv)]
        /\ UNCHANGED <<cascadeVars, intakes, isFasting, bioCall, waterEvents, clock, waterGoal>>

\* The caller has read the response.
ReturnWater ==
    /\ waterCall # NoCall
    /\ waterCall' = NoCall
    /\ UNCHANGED <<cascadeVars, intakes, isFasting, bioCall, waterEvents, clock, waterGoal>>

NextAssess == AssessHydration \/ ReturnWater

SpecAssess == Init /\ [][NextAssess]_vars

NextWaterEngine ==
    \/ ComputeDailyGoal \/ ExpectedIntakeAtHour \/ DetectDehydration
    \/ GenerateHydrationCurve \/ ReturnWater

SpecWaterEngine == Init /\ [][NextWaterEngine]_vars

\* The service on a day on which elvanse may have been logged at 08:00.
InitWater ==
    /\ intakes \in {<<>>, <<Intake(1920, "elvanse", None)>>}
    /\ isFasting \in BOOLEAN
    /\ bioCall = NoCall
    /\ waterEvents = <<>>
    /\ clock = FirstClock
    /\ waterGoal = None
    /\ waterCall = NoCall
    /\ CascadeInit

\* Time passes between two requests.
Tick ==
    /\ waterCall = NoCall
    /\ \E t \in ClockTimes :
          /\ t > clock
          /\ \A u \in ClockTimes : u > clock => t <= u
          /\ clock' = t
    /\ UNCHANGED <<cascadeVars, intakes, isFasting, bioCall, waterEvents, waterGoal, waterCall>>

\* POST /water/intake, stamped by the server or by the client (30 minutes ahead)
LogWaterIntake ==
    \E a \in WaterAmounts, ts \in {None, clock + 30} :
        LET row == insert_water_event(waterEvents, a, "manual", ts, clock)
            rows == InsertByTimestamp(waterEvents, row)
        IN  /\ waterCall = NoCall
            /\ Len(waterEvents) < MaxWaterEvents
            /\ waterEvents' = rows
            /\ waterCall' = [op |-> "log_water_intake",
                             response |-> log_water_intake(rows, clock, row.id, a)]
            /\ UNCHANGED <<cascadeVars, intakes, isFasting, bioCall, clock, waterGoal>>

\* GET /water/instruction
WaterInstruction ==
    \E req \in InstructionRequests(clock) :
        /\ waterCall = NoCall
        /\ waterGoal' = _compute_today_goal(intakes, clock, isFasting)
        /\ waterCall' = [op |-> "water_instruction_endpoint", request |-> req,
                         response |-> water_instruction_endpoint(
                                          waterEvents, intakes, clock, isFasting,
                                          req.current_intake, req.daily_goal,
                                          req.last_drink_time)]
        /\ UNCHANGED <<cascadeVars, intakes, isFasting, bioCall, waterEvents, clock>>

\* POST /water/report
WaterReport ==
    \E req \in ReportRequests(clock) :
        LET rows == WatchSync(waterEvents, clock, req.current_intake)
        IN  /\ waterCall = NoCall
            /\ Len(rows) <= MaxWaterEvents
            /\ waterEvents' = rows
            /\ waterGoal' = _compute_today_goal(intakes, clock, isFasting)
            /\ waterCall' = [op |-> "water_report_endpoint", request |-> req,
                             response |-> water_report_endpoint(
                                              rows, intakes, clock, isFasting,
                                              req.current_intake, req.daily_goal,
                                              req.last_drink_time)]
            /\ UNCHANGED <<cascadeVars, intakes, isFasting, bioCall, clock>>

\* GET /water/status
WaterStatus ==
    \E latest_health \in StatusSnapshots :
        /\ waterCall = NoCall
        /\ waterGoal' = _compute_today_goal(intakes, clock, isFasting)
        /\ waterCall' = [op |-> "water_status_endpoint", latest_health |-> latest_health,
                         response |-> water_status_endpoint(
                                          waterEvents, intakes, clock, isFasting,
                                          latest_health)]
        /\ UNCHANGED <<cascadeVars, intakes, isFasting, bioCall, waterEvents, clock>>

\* water_engine.check_intake_velocity on today's events
CheckIntakeVelocity ==
    /\ waterCall = NoCall
    /\ waterCall' = [op |-> "check_intake_velocity",
                     result |-> check_intake_velocity(
                                    get_todays_water_events(waterEvents, clock), clock)]
    /\ UNCHANGED <<cascadeVars, intakes, isFasting, bioCall, waterEvents, clock, waterGoal>>

NextWater ==
    \/ Tick
    \/ LogWaterIntake
    \/ WaterInstruction
    \/ WaterReport
    \/ WaterStatus
    \/ CheckIntakeVelocity
    \/ ReturnWater

SpecWater == InitWater /\ [][NextWater]_vars

\* ======================================================================
\* The watch reporting late in the evening, up to the last second of the day
\* ======================================================================

\* 23:30, and the last second of day 1
NightClockTimes == {2850, 1440 + LastSecondOfDay}

InitNight ==
    /\ intakes = <<>>
    /\ isFasting \in BOOLEAN
    /\ bioCall = NoCall
    /\ waterEvents = <<>>
    /\ clock = 2850
    /\ waterGoal = None
    /\ waterCall = NoCall
    /\ CascadeInit

\* Time passes between two requests.
TickNight ==
    /\ waterCall = NoCall
    /\ \E t \in NightClockTimes :
          /\ t > clock
          /\ clock' = t
    /\ UNCHANGED <<cascadeVars, intakes, isFasting, bioCall, waterEvents, waterGoal, waterCall>>

NextNight == TickNight \/ LogWaterIntake \/ WaterReport \/ ReturnWater

SpecNight == InitNight /\ [][NextNight]_vars

\* ======================================================================
\* The two routes that evaluate the interaction warnings on stored intakes
\* ======================================================================

\* GET /ddi-check at time now.  'checked' is the list handed to
\* check_ddi_warnings, over which the paracetamol total is summed.
DdiCheck ==
    \E now \in TargetTimes :
        /\ bioCall = NoCall
        /\ bioCall' = [op |-> "ddi_check", now |-> now,
                       checked |-> query_todays_intakes(intakes, now),
                       response |-> ddi_check(intakes, now, isFasting)]
        /\ UNCHANGED <<cascadeVars, intakes, isFasting, waterVars>>

\* POST /intake at time now, the request carrying its own timestamp.
LogIntakeEndpoint ==
    \E req \in IntakeChoices, now \in TargetTimes :
        LET rows == InsertByTimestamp(intakes, LoggedIntake(req))
        IN  /\ bioCall = NoCall
            /\ Len(intakes) < MaxIntakes
            /\ intakes' = rows
            /\ bioCall' = [op |-> "log_intake", now |-> now, request |-> req,
                           checked |-> IF req.substance = "co_dafalgan"
                                       THEN query_todays_intakes(rows, now)
                                       ELSE <<>>,
                           response |-> log_intake(rows, now, req, isFasting)]
            /\ UNCHANGED <<cascadeVars, isFasting, waterVars>>

NextDdiRoutes == LogIntake \/ LogIntakeEndpoint \/ DdiCheck \/ ReturnBio

SpecDdiRoutes == Init /\ [][NextDdiRoutes]_vars

\* ======================================================================
\* The engine entry points called with intakes or water events whose
\* timestamp is missing or does not parse
\* ======================================================================

\* A timestamp string that datetime.fromisoformat rejects; None is a record
\* with no 'timestamp' key at all.
BadTimestamp == -2

\* What reading and parsing the timestamp of an intake raises in the two
\* aggregators: intake["timestamp"] is a KeyError on a missing key,
\* fromisoformat a ValueError on a string it cannot parse; nothing catches either.
IntakeTimestampError(ts) ==
    IF ts = None THEN "KeyError"
    ELSE IF ts = BadTimestamp THEN "ValueError"
    ELSE "none"

\* The loop of compute_substance_load_ngml and compute_substance_level: an
\* intake of another substance is passed over before its timestamp is read,
\* the first intake of the substance whose timestamp fails ends the call.
RECURSIVE AggregatorError(_, _)
AggregatorError(list, substance) ==
    IF list = <<>> THEN "none"
    ELSE IF /\ Head(list).substance = substance
            /\ IntakeTimestampError(Head(list).timestamp) # "none"
         THEN IntakeTimestampError(Head(list).timestamp)
    ELSE AggregatorError(Tail(list), substance)

\* The first error among the aggregator calls made one after the other.
RECURSIVE FirstError(_, _)
FirstError(list, substances) ==
    IF substances = <<>> THEN "none"
    ELSE IF AggregatorError(list, Head(substances)) # "none"
         THEN AggregatorError(list, Head(substances))
    ELSE FirstError(list, Tail(substances))

\* check_ddi_warnings computes the five loads before any rule; the
\* paracetamol loop parses the co_dafalgan intakes again, after their load.
DdiSubstances == <<"elvanse", "medikinet", "medikinet_retard", "mate", "co_dafalgan">>

\* compute_bio_score computes four levels, then the five loads.
ScoreSubstances ==
    <<"elvanse", "medikinet", "medikinet_retard", "mate",
      "elvanse", "medikinet", "medikinet_retard", "mate", "co_dafalgan">>

\* What a call of a bio_engine entry point raises ("none": it returns).
EntryPointError(entry, list, substance) ==
    IF entry \in {"compute_substance_load_ngml", "compute_substance_level"}
    THEN AggregatorError(list, substance)
    ELSE IF entry = "check_ddi_warnings" THEN FirstError(list, DdiSubstances)
    ELSE FirstError(list, ScoreSubstances)

BioEntryPoints ==
    {"compute_substance_load_ngml", "compute_substance_level",
     "check_ddi_warnings", "compute_bio_score"}

EntrySubstances == {"elvanse", "mate", "co_dafalgan"}

\* Intake lists with one malformed record, of a substance the engine knows or
\* of one it does not, next to a well-formed list.
MalformedIntakeLists ==
    {<<Intake(1920, "elvanse", None)>>,
     <<Intake(BadTimestamp, "elvanse", None)>>,
     <<Intake(1920, "elvanse", None), Intake(None, "mate", None)>>,
     <<Intake(1920, "mate", None), Intake(BadTimestamp, "co_dafalgan", 1000)>>,
     <<Intake(1920, "elvanse", None), Intake(BadTimestamp, "vitamin_d", None)>>}

WaterEvent(ts, a) == [id |-> 1, timestamp |-> ts, amount_ml |-> a, source |-> "manual"]

MalformedWaterLists ==
    {<<WaterEvent(2090, 300)>>,
     <<WaterEvent(None, 300)>>,
     <<WaterEvent(2090, 300), WaterEvent(None, 900)>>,
     <<WaterEvent(None, 900), WaterEvent(2095, 500), WaterEvent(2098, 400)>>}

\* A call of one of the four bio_engine entry points.
CallBioEntryPoint ==
    \E entry \in BioEntryPoints, list \in MalformedIntakeLists,
       sub \in EntrySubstances, t \in TargetTimes :
        /\ bioCall = NoCall
        /\ bioCall' = [op |-> entry,
                       args |-> [intakes |-> list, target_time |-> t, substance |-> sub],
                       raised |-> EntryPointError(entry, list, sub)]
        /\ UNCHANGED <<cascadeVars, intakes, isFasting, waterVars>>

\* A call of water_engine.recent_intake_in_window or check_intake_velocity;
\* both catch ValueError and TypeError around fromisoformat and go on to the
\* next event, so neither raises.
CallWaterEntryPoint ==
    \E entry \in {"recent_intake_in_window", "check_intake_velocity"},
       events \in MalformedWaterLists, now \in TargetTimes :
        /\ waterCall = NoCall
        /\ waterCall' = [op |-> entry,
                         args |-> [water_events |-> events, now |-> now],
                         raised |-> "none",
                         result |-> IF entry = "recent_intake_in_window"
                                    THEN recent_intake_in_window(events, 30, now)
                                    ELSE check_intake_velocity(events, now)]
        /\ UNCHANGED <<cascadeVars, intakes, isFasting, bioCall, waterEvents, clock, waterGoal>>

NextEntryPoints == CallBioEntryPoint \/ CallWaterEntryPoint \/ ReturnBio \/ ReturnWater

SpecEntryPoints == Init /\ [][NextEntryPoints]_vars

\* ======================================================================
\* Properties of the bio engine, under SpecBio
\* ======================================================================

IsBioCall == bioCall.op = "compute_bio_score"
IsDdiCall == bioCall.op = "check_ddi_warnings"

\* The warnings of the call in flight: the whole result of check_ddi_warnings,
\* the 'warnings' field of compute_bio_score.
CallWarnings == IF IsBioCall THEN bioCall.result.warnings ELSE bioCall.result

TypesOf(ws) == {ws[i].type : i \in 1..Len(ws)}

RECURSIVE SumOver(_, _)
SumOver(f, S) ==
    IF S = {} THEN 0
    ELSE LET x == CHOOSE y \in S : TRUE IN f[x] + SumOver(f, S \ {x})

\* The concentration of a substance at the target of the call in flight.
ConcAt(substance) ==
    compute_substance_load_ngml(intakes, bioCall.target, substance,
                                default_dose(substance))

\* The intakes stamped at or before t.
NotAfter(list, t) == SelectSeq(list, LAMBDA r : r.timestamp <= t)

(***************************************************************************)
(* C1.  The score returned by compute_bio_score lies in [0, 100], whatever *)
(* the target time, the intakes and the sleep and HRV inputs.              *)
(***************************************************************************)
C1_ScoreInRange ==
    IsBioCall => bioCall.result.score >= 0 /\ bioCall.result.score <= 1000

\* A call whose components add up to more than 100 and whose score is 100.
C1_Witness ==
    /\ IsBioCall
    /\ bioCall.result.circadian + bioCall.result.elvanse_boost
       + bioCall.result.medikinet_boost + bioCall.result.caffeine_boost
       + bioCall.result.sleep_modifier + bioCall.result.hrv_penalty > 1000
    /\ bioCall.result.score = 1000

(***************************************************************************)
(* C2.  Intakes stamped later than the target time contribute nothing:     *)
(* the aggregators, compute_bio_score and check_ddi_warnings return the    *)
(* same with those intakes in the list as with them removed; and an intake *)
(* stamped exactly at the target adds 0 to every level and concentration.  *)
(***************************************************************************)
C2_Causality ==
    bioCall.op # "none" =>
        LET t == bioCall.target
            past == NotAfter(intakes, t)
        IN  /\ \A s \in Substances :
                  compute_substance_load_ngml(intakes, t, s, default_dose(s))
                  = compute_substance_load_ngml(past, t, s, default_dose(s))
            /\ \A s \in Substances \ {"co_dafalgan"} :
                  compute_substance_level(intakes, t, s, default_dose(s))
                  = compute_substance_level(past, t, s, default_dose(s))
            /\ IsBioCall =>
                  bioCall.result
                  = compute_bio_score(t, past, bioCall.health.sleep,
                                      bioCall.health.conf, bioCall.health.hrv,
                                      bioCall.health.rhr, isFasting)
            /\ IsDdiCall => bioCall.result = check_ddi_warnings(past, t, isFasting)
            /\ \A i \in 1..Len(intakes) :
                  intakes[i].timestamp = t =>
                      /\ LoadTerm(intakes[i], t, intakes[i].substance,
                                  default_dose(intakes[i].substance)) = 0
                      /\ intakes[i].substance # "co_dafalgan" =>
                            LevelTerm(intakes[i], t, intakes[i].substance,
                                      default_dose(intakes[i].substance)) = 0

\* A call on a list that holds an intake after the target, one stamped at the
\* target and one before it that is still active.
C2_Witness ==
    /\ bioCall.op # "none"
    /\ \E i \in 1..Len(intakes) : intakes[i].timestamp > bioCall.target
    /\ \E i \in 1..Len(intakes) : intakes[i].timestamp = bioCall.target
    /\ \E i \in 1..Len(intakes) :
          /\ intakes[i].timestamp < bioCall.target
          /\ ConcAt(intakes[i].substance) > 0

(***************************************************************************)
(* C3.  The 'cyp2d6_blockade' warning is returned if and only if the       *)
(* codeine concentration is above 1.0 ng/ml and one of the three stimulant *)
(* concentrations (elvanse, medikinet IR, medikinet retard) is above 20%   *)
(* of the allometrically scaled Cmax of that same substance.               *)
(***************************************************************************)
OwnCmax(name) == allometric_cmax(CMAX_REF(name), USER_WEIGHT_KG)

C3_OwnCmaxThreshold ==
    bioCall.op # "none" =>
        ("cyp2d6_blockade" \in TypesOf(CallWarnings)
         <=> /\ ConcAt("co_dafalgan") > 1000
             /\ \/ ConcAt("elvanse") * 10 > OwnCmax("elvanse") * 2
                \/ ConcAt("medikinet") * 10 > OwnCmax("medikinet_ir") * 2
                \/ ConcAt("medikinet_retard") * 10 > OwnCmax("medikinet_retard") * 2)

(***************************************************************************)
(* C4.  The paracetamol rule is evaluated only when fasting.  It sums the  *)
(* dose (the default dose when none is recorded) of exactly the            *)
(* co_dafalgan intakes stamped in [T - 24h, T]; above 2000 mg it returns   *)
(* 'paracetamol_toxicity', otherwise above 1000 mg 'paracetamol_caution',  *)
(* otherwise nothing; never both, and neither when not fasting.            *)
(***************************************************************************)
InWindow24h(i) ==
    /\ intakes[i].substance = "co_dafalgan"
    /\ bioCall.target - 1440 <= intakes[i].timestamp
    /\ intakes[i].timestamp <= bioCall.target

RecordedDose ==
    [i \in 1..Len(intakes) |->
        IF intakes[i].dose_mg = None THEN CO_DAFALGAN_DEFAULT_DOSE_MG
        ELSE intakes[i].dose_mg]

WindowTotal == SumOver(RecordedDose, {i \in 1..Len(intakes) : InWindow24h(i)})

C4_ParacetamolRule ==
    bioCall.op # "none" =>
        LET types == TypesOf(CallWarnings)
        IN  /\ "paracetamol_toxicity" \in types
               <=> (isFasting /\ WindowTotal > 2000)
            /\ "paracetamol_caution" \in types
               <=> (isFasting /\ WindowTotal > 1000 /\ WindowTotal <= 2000)
            /\ ~("paracetamol_toxicity" \in types /\ "paracetamol_caution" \in types)

(***************************************************************************)
(* C5.  check_ddi_warnings returns the warning of every rule that fires,   *)
(* each type at most once, in the fixed order metabolic blockade,          *)
(* serotonergic risk, paracetamol, CNS overload; a rule that fires neither *)
(* removes nor reorders the warning of another rule.                       *)
(***************************************************************************)
Rank(type) ==
    CASE type = "cyp2d6_blockade" -> 1
      [] type = "serotonin_syndrome" -> 2
      [] type \in {"paracetamol_toxicity", "paracetamol_caution"} -> 3
      [] type = "cns_overload" -> 4

OfRank(ws, k) == SelectSeq(ws, LAMBDA w : Rank(w.type) = k)

C5_AllRulesInOrder ==
    bioCall.op # "none" =>
        LET ws == CallWarnings
            t == bioCall.target
        IN  /\ \A i, j \in 1..Len(ws) : i < j => Rank(ws[i].type) < Rank(ws[j].type)
            /\ OfRank(ws, 1)
               = Cyp2d6Rule(ConcAt("co_dafalgan"), ConcAt("elvanse"),
                            ConcAt("medikinet"), ConcAt("medikinet_retard"))
            /\ OfRank(ws, 2)
               = SerotoninRule(ConcAt("co_dafalgan"), ConcAt("elvanse"),
                               ConcAt("medikinet"), ConcAt("medikinet_retard"),
                               ConcAt("mate"))
            /\ OfRank(ws, 3) = ParacetamolRule(intakes, t, isFasting)
            /\ OfRank(ws, 4)
               = CnsRule(ConcAt("elvanse"), ConcAt("medikinet"),
                         ConcAt("medikinet_retard"), ConcAt("mate"))

\* All four rules fire in one call.
C5_Witness ==
    /\ bioCall.op # "none"
    /\ Len(CallWarnings) = 4
    /\ CallWarnings[1].type = "cyp2d6_blockade"
    /\ CallWarnings[4].type = "cns_overload"

(***************************************************************************)
(* C6.  The 'cns_overload' warning is returned if and only if the combined *)
(* stimulant concentration (elvanse + medikinet IR + medikinet retard) is  *)
(* above 80% of the summed scaled Cmax of those same three forms and the   *)
(* caffeine concentration is above 800 ng/ml.                              *)
(***************************************************************************)
C6_SummedCmaxOfTheForms ==
    bioCall.op # "none" =>
        ("cns_overload" \in TypesOf(CallWarnings)
         <=> /\ (ConcAt("elvanse") + ConcAt("medikinet") + ConcAt("medikinet_retard")) * 10
                > (OwnCmax("elvanse") + OwnCmax("medikinet_ir")
                   + OwnCmax("medikinet_retard")) * 8
             /\ ConcAt("mate") > 800000)

\* ======================================================================
\* Properties of the hydration engine, under SpecAssess and SpecWater
\* ======================================================================

IsAssessCall == waterCall.op = "assess_hydration"

\* int(expected - current_intake) for the arguments of the call in flight
AssessDeficit ==
    LET a == waterCall.args
        e == expected_intake_at_hour(HourOf(a.now), a.goal_ml, DEFAULT_WAKE_HOUR,
                                     DEFAULT_SLEEP_HOUR, isFasting)
    IN  TruncDiv(e.num - a.current_intake_ml * e.den, e.den)

SuppressionApplies == waterCall.args.recent_intake_30min_ml > 500 /\ AssessDeficit > 0

(***************************************************************************)
(* C7.  When the suppression rule does not apply, the result of            *)
(* assess_hydration is that of the first rung that matches, in the order   *)
(* goal reached, deficit > 1000, > 500, > 200, last drink more than 120    *)
(* and more than 90 minutes ago, zero intake later than one hour after     *)
(* waking, pacing reminder, neutral; no later rung overrides it.           *)
(***************************************************************************)
C7_FirstMatchingRung ==
    (IsAssessCall /\ ~SuppressionApplies) =>
        LET a == waterCall.args
            r == waterCall.result
            d == AssessDeficit
            Since(limit) == a.last_drink_time # None /\ a.now - a.last_drink_time > limit
            Is(p, amount, deadline) ==
                /\ r.priority = p
                /\ r.recommended_amount = amount
                /\ r.deadline_minutes = deadline
        IN  IF a.current_intake_ml >= a.goal_ml
            THEN r.status = "goal_reached" /\ r.priority = "none" /\ r.recommended_amount = 0
            ELSE IF d > 1000 THEN Is("critical", Min(500, d), 20)
            ELSE IF d > 500 THEN Is("high", Min(400, d), 30)
            ELSE IF d > 200 THEN Is("normal", Min(300, d), 45)
            ELSE IF Since(120) THEN Is("high", 250, 15)
            ELSE IF Since(90) THEN Is("normal", 200, 30)
            ELSE IF a.current_intake_ml = 0 /\ HourOf(a.now) > DEFAULT_WAKE_HOUR + 60
            THEN /\ r.message.text = "Noch nichts getrunken heute - starte jetzt!"
                 /\ r.recommended_amount = 250
                 /\ r.deadline_minutes = 15
            ELSE IF r.pacing_ml_per_hour > 0 /\ d > 0
            THEN r.priority = "low" /\ r.recommended_amount = Min(250, r.pacing_ml_per_hour)
            ELSE /\ r.status = "on_track"
                 /\ r.message = EmptyMessage
                 /\ Is("none", 0, 0)

\* The deficit rung (> 200) wins although the last drink is more than two hours
\* ago and nothing has been drunk one hour after waking.
C7_Witness ==
    /\ IsAssessCall
    /\ ~SuppressionApplies
    /\ AssessDeficit > 200 /\ AssessDeficit < 300
    /\ waterCall.args.current_intake_ml = 0
    /\ HourOf(waterCall.args.now) > DEFAULT_WAKE_HOUR + 60
    /\ waterCall.args.last_drink_time # None
    /\ waterCall.args.now - waterCall.args.last_drink_time > 120
    /\ waterCall.result.priority = "normal"
    /\ waterCall.result.recommended_amount = AssessDeficit

(***************************************************************************)
(* C8.  Whenever more than 500 ml were drunk in the last 30 minutes and    *)
(* the raw deficit is positive, assess_hydration returns the neutral       *)
(* result (on_track, empty message, amount 0, priority none, deadline 0),  *)
(* whatever the deficit, the last drink and the intake; with at most       *)
(* 500 ml or no positive deficit the ladder is evaluated unchanged.        *)
(***************************************************************************)
C8_RapidIntakeSuppression ==
    IsAssessCall =>
        LET a == waterCall.args
            r == waterCall.result
        IN  IF a.recent_intake_30min_ml > 500 /\ AssessDeficit > 0
            THEN /\ r.status = "on_track"
                 /\ r.message = EmptyMessage
                 /\ r.recommended_amount = 0
                 /\ r.priority = "none"
                 /\ r.deadline_minutes = 0
            ELSE r = assess_hydration(a.current_intake_ml, a.goal_ml, a.now,
                                      a.last_drink_time, DEFAULT_WAKE_HOUR,
                                      DEFAULT_SLEEP_HOUR, isFasting, 0)

\* Suppressed although the deficit is above 1000 ml, nothing has been drunk
\* and the last drink is more than two hours ago.
C8_Witness ==
    /\ IsAssessCall
    /\ waterCall.args.recent_intake_30min_ml > 500
    /\ AssessDeficit > 1000
    /\ waterCall.args.current_intake_ml = 0
    /\ waterCall.args.last_drink_time # None
    /\ waterCall.args.now - waterCall.args.last_drink_time > 120
    /\ waterCall.result.status = "on_track"
    /\ waterCall.result.recommended_amount = 0

(***************************************************************************)
(* C9.  check_intake_velocity alerts if and only if the amounts of the     *)
(* water events stamped in [now - 60 min, now] add up to strictly more     *)
(* than 800 ml; older and later events do not count, and last_60min_ml is  *)
(* that same sum.                                                          *)
(***************************************************************************)
IsVelocityCall == waterCall.op = "check_intake_velocity"

InLastHour(i) ==
    /\ clock - 60 <= waterEvents[i].timestamp
    /\ waterEvents[i].timestamp <= clock

LastHourMl ==
    SumOver([i \in 1..Len(waterEvents) |-> waterEvents[i].amount_ml],
            {i \in 1..Len(waterEvents) : InLastHour(i)})

C9_VelocityAlert ==
    IsVelocityCall =>
        /\ waterCall.result.alert = (LastHourMl > 800)
        /\ waterCall.result.last_60min_ml = LastHourMl

\* Exactly 800 ml in the window, one event exactly 60 minutes old, one event
\* stamped later than now: no alert.
C9_Witness ==
    /\ IsVelocityCall
    /\ LastHourMl = 800
    /\ ~waterCall.result.alert
    /\ \E i \in 1..Len(waterEvents) : waterEvents[i].timestamp = clock - 60
    /\ \E i \in 1..Len(waterEvents) : waterEvents[i].timestamp > clock

(***************************************************************************)
(* C10.  In every instruction of water_report_endpoint and                 *)
(* water_instruction_endpoint, while the velocity alert is active the      *)
(* message is the velocity warning, the priority 'critical', the           *)
(* recommended amount 0 and the deadline 0, whatever assess_hydration      *)
(* returned; otherwise the four fields are those of assess_hydration.      *)
(***************************************************************************)
IsInstructionCall ==
    waterCall.op \in {"water_instruction_endpoint", "water_report_endpoint"}

CallInstruction ==
    IF waterCall.op = "water_report_endpoint" THEN waterCall.response.instruction
    ELSE waterCall.response

\* What assess_hydration returns for the request in flight.
CallAssessment ==
    LET req == waterCall.request
        rows == get_todays_water_events(waterEvents, clock)
        intake == IF waterCall.op = "water_report_endpoint" /\ req.current_intake <= 0
                  THEN SumAmounts(rows) ELSE req.current_intake
    IN  assess_hydration(intake, _compute_today_goal(intakes, clock, isFasting).goal_ml,
                         clock, req.last_drink_time, DEFAULT_WAKE_HOUR,
                         DEFAULT_SLEEP_HOUR, isFasting,
                         recent_intake_in_window(rows, 30, clock))

CallVelocity == check_intake_velocity(get_todays_water_events(waterEvents, clock), clock)

C10_VelocityOverride ==
    IsInstructionCall =>
        LET i == CallInstruction
            a == CallAssessment
            v == CallVelocity
        IN  IF v.alert
            THEN /\ i.message = v.message
                 /\ i.priority = "critical"
                 /\ i.recommended_amount = 0
                 /\ i.deadline_minutes = 0
            ELSE /\ i.message = a.message
                 /\ i.priority = a.priority
                 /\ i.recommended_amount = a.recommended_amount
                 /\ i.deadline_minutes = a.deadline_minutes

\* The alert is active while the assessment recommends water.
C10_Witness ==
    /\ IsInstructionCall
    /\ CallVelocity.alert
    /\ CallAssessment.recommended_amount > 0
    /\ CallInstruction.recommended_amount = 0
    /\ CallInstruction.priority = "critical"

(***************************************************************************)
(* C11.  When the zero-intake rung is the first rung of the ladder to      *)
(* match (nothing drunk, more than one hour past wake_hour, deficit <=     *)
(* 200, no last-drink rung, no suppression), the result has priority       *)
(* 'critical', recommended amount 250 and deadline 15 minutes.             *)
(***************************************************************************)
ZeroIntakeRungFirst ==
    /\ IsAssessCall
    /\ ~SuppressionApplies
    /\ waterCall.args.current_intake_ml = 0
    /\ waterCall.args.current_intake_ml < waterCall.args.goal_ml
    /\ HourOf(waterCall.args.now) > DEFAULT_WAKE_HOUR + 60
    /\ AssessDeficit <= 200
    /\ \/ waterCall.args.last_drink_time = None
       \/ waterCall.args.now - waterCall.args.last_drink_time <= 90

C11_ZeroIntakeCritical ==
    ZeroIntakeRungFirst =>
        /\ waterCall.result.priority = "critical"
        /\ waterCall.result.recommended_amount = 250
        /\ waterCall.result.deadline_minutes = 15

(***************************************************************************)
(* C12.  The goal compute_daily_goal returns is the sum of the four parts  *)
(* it reports, goal_ml = base_ml + drug_modifier_ml + fasting_modifier_ml  *)
(* + activity_modifier_ml, where the drug modifier is 0 unless Elvanse is  *)
(* active, the fasting modifier 0 unless fasting, and the activity         *)
(* modifier 0 for steps at or below the baseline.                          *)
(***************************************************************************)
IsGoalCall == waterCall.op = "compute_daily_goal"

C12_GoalIsSumOfBreakdown ==
    IsGoalCall =>
        LET r == waterCall.result
        IN  /\ r.goal_ml = r.base_ml + r.drug_modifier_ml + r.fasting_modifier_ml
                              + r.activity_modifier_ml
            /\ (~waterCall.args.elvanse_active => r.drug_modifier_ml = 0)
            /\ (~waterCall.args.is_fasting => r.fasting_modifier_ml = 0)
            /\ (waterCall.args.steps <= WATER_ACTIVITY_BASELINE_STEPS
                    => r.activity_modifier_ml = 0)

(***************************************************************************)
(* C13.  expected_intake_at_hour returns 0 for hour <= wake_hour, goal_ml  *)
(* for hour >= sleep_hour, and goal_ml * (hour - wake_hour) / (sleep_hour  *)
(* - wake_hour) in between; for goal_ml >= 0 the result is within          *)
(* [0, goal_ml] and non-decreasing in hour, no division by zero happens    *)
(* for any wake_hour and sleep_hour, and is_fasting never changes the      *)
(* result.  As stated (C13_ExpectedIntake) the first two cases overlap     *)
(* when wake_hour >= sleep_hour; the code tests hour <= wake_hour first,   *)
(* and C13_ExpectedIntakeFirstMatch states the claim with that order.      *)
(***************************************************************************)
IsExpectedCall == waterCall.op = "expected_intake_at_hour"

FracLeq(a, b) == a.num * b.den <= b.num * a.den

FracEq(a, b) == a.num * b.den = b.num * a.den

Whole(n) == [num |-> n, den |-> 1]

ExpectedRangeAndMonotone ==
    LET a == waterCall.args
        r == waterCall.result
    IN  /\ r.den > 0
        /\ FracLeq(Whole(0), r)
        /\ FracLeq(r, Whole(a.goal_ml))
        /\ \A h2 \in ExpectedHours :
               LET r2 == expected_intake_at_hour(h2, a.goal_ml, a.wake_hour, a.sleep_hour, a.is_fasting)
               IN  a.hour <= h2 => r2.den > 0 /\ FracLeq(r, r2)
        /\ r = expected_intake_at_hour(a.hour, a.goal_ml, a.wake_hour, a.sleep_hour, ~a.is_fasting)

IsDehydrationCall == waterCall.op = "detect_dehydration_from_vitals"

HrDriftReached ==
    /\ waterCall.args.current_resting_hr # None
    /\ waterCall.args.baseline_resting_hr # None
    /\ waterCall.args.current_resting_hr - waterCall.args.baseline_resting_hr
          >= DEHYDRATION_HR_DRIFT_BPM

HrvDropReached ==
    /\ waterCall.args.current_hrv # None
    /\ waterCall.args.baseline_hrv # None
    /\ waterCall.args.baseline_hrv > 0
    /\ (waterCall.args.baseline_hrv - waterCall.args.current_hrv) * 100
          >= DEHYDRATION_HRV_DROP_PCT * waterCall.args.baseline_hrv

C14_DehydrationConjunction ==
    IsDehydrationCall =>
        /\ waterCall.result.alert \in BOOLEAN
        /\ waterCall.result.alert <=> (HrDriftReached /\ HrvDropReached)

\* an alert, at exactly both thresholds
C14_Witness ==
    /\ IsDehydrationCall
    /\ waterCall.result.alert = TRUE
    /\ waterCall.args.current_resting_hr - waterCall.args.baseline_resting_hr
          = DEHYDRATION_HR_DRIFT_BPM
    /\ (waterCall.args.baseline_hrv - waterCall.args.current_hrv) * 100
          = DEHYDRATION_HRV_DROP_PCT * waterCall.args.baseline_hrv

(***************************************************************************)
(* C15.  hrv_penalty returns a value in [-15, 0] for every HRV, resting    *)
(* HR and stimulant level; it returns exactly 0 whenever HRV is absent,    *)
(* even with a resting HR above 100 bpm; and when HRV is present the       *)
(* HRV-threshold penalty and the resting-HR penalty (8 for HR > 100, 5 for *)
(* HR in (90, 100] with stim > 0.3) add up before the floor at -15.        *)
(***************************************************************************)
IsHrvCall == bioCall.op = "hrv_penalty"

\* HRV<20 & stim>0.5: 15; HRV<30 & stim>0.5: 10; HRV<40 & stim>0.3: 5;
\* HRV<50 & stim>0.5: 3 (in 1/600 point)
HrvThresholdPenalty ==
    LET hv == bioCall.args.hrv_ms
        st == bioCall.args.stim_level
    IN  IF hv < 20 /\ st > 500 THEN 9000
        ELSE IF hv < 30 /\ st > 500 THEN 6000
        ELSE IF hv < 40 /\ st > 300 THEN 3000
        ELSE IF hv < 50 /\ st > 500 THEN 1800
        ELSE 0

RestingHrPenalty ==
    LET hr == bioCall.args.resting_hr
    IN  IF hr = None THEN 0
        ELSE IF hr > 100 THEN 4800
        ELSE IF hr > 90 /\ bioCall.args.stim_level > 300 THEN 3000
        ELSE 0

C15_HrvPenalty ==
    IsHrvCall =>
        /\ -9000 <= bioCall.result /\ bioCall.result <= 0
        /\ (bioCall.args.hrv_ms = None => bioCall.result = 0)
        /\ (bioCall.args.hrv_ms # None
               => bioCall.result = -Min(9000, HrvThresholdPenalty + RestingHrPenalty))

\* both penalties apply and their sum, 10 + 8, is floored
C15_Witness ==
    /\ IsHrvCall
    /\ bioCall.args.hrv_ms # None
    /\ HrvThresholdPenalty = 6000
    /\ RestingHrPenalty = 4800
    /\ bioCall.result = -9000

(***************************************************************************)
(* C16.  Low-confidence sleep data is discounted toward neutral: for every *)
(* sleep duration, sleep_quality_modifier with a lower sleep_confidence in *)
(* 0..100 never returns a modifier of larger magnitude than with a higher  *)
(* sleep_confidence, and the result stays within [-20, +10].               *)
(***************************************************************************)
IsSleepCall == bioCall.op = "sleep_quality_modifier"

Abs(n) == IF n < 0 THEN -n ELSE n

C16_ConfidenceDiscounts ==
    IsSleepCall /\ bioCall.args.sleep_confidence # None =>
        /\ -12000 <= bioCall.result /\ bioCall.result <= 6000
        /\ \A higher \in SleepConfidences \ {None} :
               bioCall.args.sleep_confidence <= higher
                   => Abs(bioCall.result)
                        <= Abs(sleep_quality_modifier(bioCall.args.sleep_duration_min, higher))

(***************************************************************************)
(* C17.  _determine_phase is total and returns exactly one of nine labels  *)
(* by first match in this order: hour < 6 sleep; hour < 7 waking;          *)
(* stim_level >= 0.85 peak-focus; >= 0.5 active-focus; >= 0.2 declining;   *)
(* >= 0.05 low-residual; 12.5 <= hour <= 14.5 midday-dip; hour >= 20       *)
(* wind-down; else baseline.  Hence from 07:00 on any stim_level >= 0.05   *)
(* gives a stim-level label whatever the hour, and an hour-based label     *)
(* appears only when stim_level < 0.05.                                    *)
(***************************************************************************)
IsPhaseCall == bioCall.op = "_determine_phase"

PhaseLabels ==
    <<"sleep", "waking", "peak-focus", "active-focus", "declining", "low-residual",
      "midday-dip", "wind-down", "baseline">>

\* whether the condition of the i-th label holds for the call in flight
PhaseCondition(i) ==
    LET st == bioCall.args.stim_level
        h == bioCall.args.hour
    IN  CASE i = 1 -> h < 360
          [] i = 2 -> h < 420
          [] i = 3 -> st >= 850
          [] i = 4 -> st >= 500
          [] i = 5 -> st >= 200
          [] i = 6 -> st >= 50
          [] i = 7 -> 750 <= h /\ h <= 870
          [] i = 8 -> h >= 1200
          [] OTHER -> TRUE

StimLabels == {"peak-focus", "active-focus", "declining", "low-residual"}

HourLabels == {"midday-dip", "wind-down", "baseline"}

C17_PhaseFirstMatch ==
    IsPhaseCall =>
        /\ \E i \in 1 .. 9 :
               /\ bioCall.result = PhaseLabels[i]
               /\ PhaseCondition(i)
               /\ \A j \in 1 .. (i - 1) : ~PhaseCondition(j)
        /\ (bioCall.args.hour >= 420 /\ bioCall.args.stim_level >= 50
               => bioCall.result \in StimLabels)
        /\ (bioCall.args.hour >= 420 /\ bioCall.result \in HourLabels
               => bioCall.args.stim_level < 50)

\* inside the midday window with a residual stimulant level: the stim label wins
C17_Witness ==
    /\ IsPhaseCall
    /\ bioCall.args.hour = 750
    /\ bioCall.args.stim_level = 50
    /\ bioCall.result = "low-residual"

(***************************************************************************)
(* C18.  circadian_base_score is continuous at every segment boundary (6,  *)
(* 7, 9, 12, 13, 14.5, 15, 17, 20, 22: the segment ending at the           *)
(* breakpoint and the segment starting there give the same value), and for *)
(* every hour in [0, 24) its value lies in [15, 60], with 60 on            *)
(* 09:00-12:00, 35 at 14:30 and 50 on 15:00-17:00.                         *)
(***************************************************************************)
IsCircadianCall == bioCall.op = "circadian_base_score"

CircadianBreakpoints == {360, 420, 540, 720, 780, 870, 900, 1020, 1200, 1320}

C18_CircadianContinuousInRange ==
    IsCircadianCall =>
        LET h == bioCall.args.hour
        IN  /\ 9000 <= bioCall.result /\ bioCall.result <= 36000
            /\ (540 <= h /\ h <= 720 => bioCall.result = 36000)
            /\ (h = 870 => bioCall.result = 21000)
            /\ (900 <= h /\ h <= 1020 => bioCall.result = 30000)
            /\ (h \in CircadianBreakpoints
                   => bioCall.result = CircadianSegment(CircadianBranch(h) - 1, h))

\* the call at 09:00, where the morning ramp meets the plateau
C18_Witness ==
    /\ IsCircadianCall
    /\ bioCall.args.hour = 540
    /\ CircadianBranch(539) = 3
    /\ bioCall.result = CircadianSegment(3, 540)

(***************************************************************************)
(* C19.  Given zero intakes and no health data (no sleep, HRV or resting   *)
(* HR), the score compute_bio_score returns at time t equals               *)
(* circadian_base_score(hour(t)) exactly, for every minute of the day      *)
(* (C19_ScoreIsCircadianExactly).  The returned score is rounded to one    *)
(* decimal: it equals the circadian value rounded to one decimal, which is *)
(* the circadian field of the same result (C19_ScoreIsRoundedCircadian).   *)
(***************************************************************************)
NoIntakesNoHealth ==
    /\ IsBioCall
    /\ intakes = <<>>
    /\ bioCall.health = [sleep |-> None, conf |-> None, hrv |-> None, rhr |-> None]

\* the score is in tenths of a point, the circadian value in 1/600 point
C19_ScoreIsCircadianExactly ==
    NoIntakesNoHealth =>
        bioCall.result.score * 60
            = CircadianSegment(CircadianBranch(bioCall.target % 1440), bioCall.target % 1440)

C19_ScoreIsRoundedCircadian ==
    NoIntakesNoHealth =>
        /\ bioCall.result.score
              = RoundDiv(CircadianSegment(CircadianBranch(bioCall.target % 1440),
                                          bioCall.target % 1440), 60)
        /\ bioCall.result.score = bioCall.result.circadian

\* 06:01, on the morning ramp: 15.333... is returned as 15.3
C19_Witness ==
    /\ NoIntakesNoHealth
    /\ bioCall.target % 1440 = 361
    /\ bioCall.result.score = 153

(***************************************************************************)
(* C20.  generate_day_curve(date, ..., interval_minutes) returns one point *)
(* for each t = midnight + i * interval_minutes with 0 <= i *              *)
(* interval_minutes < 1440, in increasing time order starting at 00:00 of  *)
(* the given date, and every point is identical to what compute_bio_score  *)
(* returns when called directly at that timestamp with the same intakes    *)
(* and health inputs (in particular at 15-minute resolution).              *)
(***************************************************************************)
IsCurveCall == bioCall.op = "generate_day_curve"

CurveMidnight == bioCall.date - (bioCall.date % 1440)

\* the offsets i * interval_minutes below 1440
CurveOffsets == {o \in 0 .. 1439 : o % bioCall.interval_minutes = 0}

DirectScore(t) ==
    compute_bio_score(t, intakes, bioCall.health.sleep, bioCall.health.conf,
                      bioCall.health.hrv, bioCall.health.rhr, isFasting)

C20_CurveMatchesDirectScore ==
    IsCurveCall =>
        LET points == bioCall.result
        IN  /\ Len(points) = Cardinality(CurveOffsets)
            /\ \A k \in 1 .. Len(points) :
                   LET t == CurveMidnight + (k - 1) * bioCall.interval_minutes
                   IN  /\ (k - 1) * bioCall.interval_minutes \in CurveOffsets
                       /\ points[k].timestamp = t
                       /\ points[k] = DirectScore(t)

\* a 15-minute curve asked for with a date at 11:00, over stored intakes
C20_Witness ==
    /\ IsCurveCall
    /\ bioCall.interval_minutes = 15
    /\ bioCall.date % 1440 # 0
    /\ intakes # <<>>
    /\ Len(bioCall.result) = 96
    /\ bioCall.result[1].timestamp = CurveMidnight
    /\ bioCall.result[96].score # bioCall.result[1].score

(***************************************************************************)
(* C21.  For any list of intakes of one substance, the total returned by   *)
(* the superposition aggregators with the minimum-magnitude cutoff         *)
(* (contribution > 0.01 ng/ml in compute_substance_load_ngml, > 0.005 in   *)
(* compute_substance_level) differs from the plain sum of all causal       *)
(* contributions by no more than the cutoff's own magnitude, however many  *)
(* events fall below the cutoff.                                           *)
(***************************************************************************)
IsLoadCall == bioCall.op = "compute_substance_load_ngml"

IsLevelCall == bioCall.op = "compute_substance_level"

\* the contribution of the i-th intake of the call, with no cutoff
CausalContribution(i) ==
    LET intake == bioCall.args.intakes[i]
        sub == bioCall.args.substance
        hours_since == bioCall.args.target_time - intake.timestamp
    IN  IF intake.substance # sub \/ hours_since < 0 THEN 0
        ELSE IF IsLoadCall
             THEN conc_fn(sub, hours_since, DoseOf(intake, default_dose(sub)))
             ELSE level_fn(sub, hours_since, DoseOf(intake, default_dose(sub)))

PlainSum ==
    SumOver([i \in 1 .. Len(bioCall.args.intakes) |-> CausalContribution(i)],
            1 .. Len(bioCall.args.intakes))

C21_CutoffChangesAtMostItself ==
    /\ IsLoadCall => PlainSum - bioCall.result <= 10
    /\ IsLevelCall => PlainSum - bioCall.result <= 5

(***************************************************************************)
(* C22.  The cascade peak memoization table is safe under concurrent       *)
(* invocation: for any interleaving of simultaneous _cascade_peak calls    *)
(* from several request handlers (check of the key, peak sweep, insert),   *)
(* every call returns the correct peak for its rate triple, an entry once  *)
(* written is never replaced by a different value, and the table holds     *)
(* exactly one entry per distinct rounded rate triple that was computed.   *)
(***************************************************************************)
\* the largest sample of the sweep
CorrectPeak(rates) ==
    LET samples == CascadeRawSamples(rates)
        values == {samples[i] : i \in 1 .. Len(samples)}
    IN  CHOOSE v \in values : \A w \in values : w <= v

ReturnedPeaksCorrect ==
    \A h \in Handlers :
        handlers[h].pc = "returned" =>
            /\ handlers[h].result = CorrectPeak(handlers[h].rates)
            /\ CacheKey(handlers[h].rates) \in DOMAIN peakCache

OneEntryPerKey ==
    /\ DOMAIN peakCache \subseteq {CacheKey(rates) : rates \in RateTriples}
    /\ \A k \in DOMAIN peakCache :
           \E rates \in RateTriples : CacheKey(rates) = k /\ peakCache[k] = CorrectPeak(rates)

EntriesKept ==
    \A k \in DOMAIN peakCache : k \in DOMAIN peakCache' /\ peakCache'[k] = peakCache[k]

C22_CacheSafeUnderConcurrency ==
    /\ [](ReturnedPeaksCorrect /\ OneEntryPerKey)
    /\ [][EntriesKept]_vars

\* two threads missed the key together: one has inserted and returned, the
\* other is about to insert over the entry
C22_Witness ==
    \E h1 \in Handlers, h2 \in Handlers :
        /\ h1 # h2
        /\ handlers[h1].pc = "returned"
        /\ handlers[h2].pc = "insert"
        /\ CacheKey(handlers[h2].rates) \in DOMAIN peakCache

(***************************************************************************)
(* C23.  Engine results do not depend on call history: for any two         *)
(* sequences of earlier engine calls, _cascade_peak returns identical      *)
(* outputs for identical arguments, including for two rate triples that    *)
(* round to the same 6-decimal cache key.  The output of a call on an      *)
(* empty table is the peak of its own sweep, so history independence means *)
(* that every call returns that value.                                     *)
(***************************************************************************)
C23_HistoryIndependent ==
    handlers[DirectCaller].pc = "returned" =>
        handlers[DirectCaller].result = CorrectPeak(handlers[DirectCaller].rates)

\* ======================================================================
\* Properties of the entry points on malformed timestamps, under SpecEntryPoints
\* ======================================================================

\* C24: no engine entry point raises on an intake or a water event whose
\* timestamp is missing or does not parse: the call in flight, of a bio_engine
\* aggregator, of check_ddi_warnings, of compute_bio_score or of one of the two
\* water_engine window functions, has raised nothing.
C24_NoEntryPointRaises ==
    /\ bioCall # NoCall => bioCall.raised = "none"
    /\ waterCall # NoCall => waterCall.raised = "none"

\* ======================================================================
\* Properties of the hydration dashboard, under SpecWater
\* ======================================================================

IsStatusCall == waterCall.op = "water_status_endpoint"

\* C25: in the response of /water/status, whenever the velocity alert is
\* active the assessment next to it recommends no water.
C25_StatusAlertRecommendsNothing ==
    (IsStatusCall /\ waterCall.response.velocity.alert)
        => waterCall.response.assessment.recommended_amount = 0

\* C29: in every response of /water/status the dehydration alert is false,
\* whatever health snapshot is stored: the latest snapshot is both the
\* current and the baseline reading, so the resting-HR drift is 0.
C29_StatusDehydrationNeverAlerts ==
    IsStatusCall => waterCall.response.dehydration.alert = FALSE

\* A status response computed from a stored snapshot with a resting HR and an
\* HRV, on which detect_dehydration_from_vitals evaluates its rule.
C29_Witness ==
    /\ IsStatusCall
    /\ waterCall.latest_health = <<Snapshot(64, 34)>>
    /\ waterCall.response.dehydration.hr_drift_bpm = 0

\* ======================================================================
\* Properties of the interaction routes, under SpecDdiRoutes
\* ======================================================================

\* The call in flight evaluates the paracetamol total: /ddi-check, or the
\* logging of a co_dafalgan intake, of a fasting user.
EvaluatesParacetamol ==
    /\ isFasting
    /\ \/ bioCall.op = "ddi_check"
       \/ bioCall.op = "log_intake" /\ bioCall.request.substance = "co_dafalgan"

InTrailingDay(intake, now) ==
    /\ intake.substance = "co_dafalgan"
    /\ now - 1440 <= intake.timestamp
    /\ intake.timestamp <= now

\* C26: the paracetamol total evaluated by /ddi-check or on logging a
\* co_dafalgan intake at time now covers every stored co_dafalgan intake
\* stamped within [now - 24 h, now], those before today's midnight included:
\* each such row is among the intakes the total is summed over.
C26_TotalCoversTrailingDay ==
    EvaluatesParacetamol =>
        \A i \in 1..Len(intakes) :
            InTrailingDay(intakes[i], bioCall.now) =>
                \E j \in 1..Len(bioCall.checked) : bioCall.checked[j] = intakes[i]

\* ======================================================================
\* The recorded dose of an intake, under SpecBio
\* ======================================================================

\* The stored intakes without those recorded with a dose of 0 mg.
WithoutZeroDoses(list) == SelectSeq(list, LAMBDA i : i.dose_mg # 0)

\* C27: the default dose stands in only for an absent dose_mg; a recorded
\* dose scales linearly, so an intake recorded with 0 mg adds nothing: the
\* codeine concentration and (for a fasting user) the 24 h paracetamol total
\* of a check_ddi_warnings call are those of the list without such intakes.
C27_RecordedZeroContributesNothing ==
    IsDdiCall =>
        /\ compute_substance_load_ngml(intakes, bioCall.target, "co_dafalgan",
                                       CO_DAFALGAN_DEFAULT_DOSE_MG)
           = compute_substance_load_ngml(WithoutZeroDoses(intakes), bioCall.target,
                                         "co_dafalgan", CO_DAFALGAN_DEFAULT_DOSE_MG)
        /\ isFasting =>
               para_total(intakes, bioCall.target)
               = para_total(WithoutZeroDoses(intakes), bioCall.target)

\* ======================================================================
\* The synchronisation of the watch's total, under SpecWater and SpecNight
\* ======================================================================

\* The step in which water_report_endpoint handles a report.
ReportStep == waterCall = NoCall /\ waterCall'.op = "water_report_endpoint"

\* rows with the row at position k taken out
WithoutRow(rows, k) == SubSeq(rows, 1, k - 1) \o SubSeq(rows, k + 1, Len(rows))

\* after is before plus exactly one 'watch' event of amount_ml
OneWatchEventAdded(before, after, amount_ml) ==
    /\ Len(after) = Len(before) + 1
    /\ \E k \in 1..Len(after) :
          /\ after[k].source = "watch"
          /\ after[k].amount_ml = amount_ml
          /\ WithoutRow(after, k) = before

\* C28: a report with current_intake W > 0, handled while today's stored
\* total is D, inserts exactly one 'watch' event of W - D ml when W > D, after
\* which today's stored total is W, and inserts nothing when W <= D (nor when
\* W is 0).  Every report then leaves max(D, W) as the total: a report never
\* lowers it, the same report sent again inserts nothing, and with reports as
\* the only writes the total is the largest W reported so far.
C28_WatchSyncInsertsDelta ==
    [][ReportStep =>
          LET W == waterCall'.request.current_intake
              D == get_todays_water_total(waterEvents, clock)
          IN  IF W > 0 /\ W > D
              THEN /\ OneWatchEventAdded(waterEvents, waterEvents', W - D)
                   /\ get_todays_water_total(waterEvents', clock) = W
              ELSE waterEvents' = waterEvents]_vars

\* ======================================================================
\* The hydration curve of the watch, under SpecWaterEngine
\* ======================================================================

IsHydrationCurveCall == waterCall.op = "generate_hydration_curve"

\* The points of expected_curve: from (wake_hour, 0) to (sleep_hour, goal_ml),
\* hours strictly increasing, ml never decreasing.
CurveSpansWakingDay(curve, goal_ml, wake_hour, sleep_hour) ==
    /\ curve # <<>>
    /\ curve[1] = [hour |-> wake_hour, ml |-> 0]
    /\ curve[Len(curve)] = [hour |-> sleep_hour, ml |-> goal_ml]
    /\ \A k \in 1..(Len(curve) - 1) :
          /\ curve[k].hour < curve[k + 1].hour
          /\ curve[k + 1].hour - curve[k].hour <= 30
          /\ curve[k].ml <= curve[k + 1].ml

\* The four forward targets: never decreasing with the minutes, at most the
\* goal (the target hour is capped at sleep_hour), delta_ml the part of the
\* target not yet drunk.
TargetsWithinGoal(targets, current_intake_ml, goal_ml) ==
    /\ Len(targets) = 4
    /\ \A k \in 1..4 :
          /\ targets[k].minutes = 15 * k
          /\ targets[k].target_ml <= goal_ml
          /\ targets[k].delta_ml = Max(0, targets[k].target_ml - current_intake_ml)
          /\ targets[k].delta_ml >= 0
    /\ \A k \in 1..3 : targets[k].target_ml <= targets[k + 1].target_ml

\* C30: for wake_hour < sleep_hour and goal_ml >= 0, the expected_curve of
\* generate_hydration_curve spans the whole waking day at 30-minute spacing,
\* from (wake_hour, 0) to (sleep_hour, goal_ml), with strictly increasing
\* hours and non-decreasing ml; each of the four forward targets has a
\* target_ml non-decreasing in minutes and at most goal_ml, and a delta_ml of
\* max(0, target_ml - current_intake_ml).
C30_CurveSpansDayTargetsCapped ==
    (/\ IsHydrationCurveCall
     /\ waterCall.args.wake_hour < waterCall.args.sleep_hour
     /\ waterCall.args.goal_ml >= 0)
        => /\ CurveSpansWakingDay(waterCall.result.expected_curve, waterCall.args.goal_ml,
                                  waterCall.args.wake_hour, waterCall.args.sleep_hour)
           /\ TargetsWithinGoal(waterCall.result.targets,
                                waterCall.args.current_intake_ml, waterCall.args.goal_ml)

====
